---- MODULE Spec2Model ----
(***************************************************************************)
(* Model of the signal-to-execution pipeline of neural-trader:             *)
(*   PortfolioManager  (src/src/portfolio/PortfolioManager.ts)             *)
(*   RiskManager       (src/src/risk/RiskManager.ts)                       *)
(*   ExchangeManager   (src/src/exchanges/ExchangeManager.ts)              *)
(*   TradingEngine     (src/unnamed/part_002)                              *)
(*   StockTradingEngine(src/src/stocks/StockTradingEngine.ts)              *)
(*   DataFeedManager   (src/Dockerfile, lines 172-560)                     *)
(*                                                                         *)
(* Numbers.  Prices are integers.  Quantities and money are fixed-point    *)
(* integers in hundredths (Scale): quantity 1800 is 18.00 units, balance   *)
(* 1000000 is 10000.00 USDT.  Floating-point rounding of the JavaScript    *)
(* doubles is not modelled; the arithmetic is exact.                       *)
(* An absent optional number (undefined) is 0, which the code's            *)
(* truthiness tests (x || y, if (x)) treat the same way.                   *)
(***************************************************************************)
EXTENDS Integers, Sequences, FiniteSets, TLC

\* ------------------------------------------------------------------------
\* Bounds of the model
\* ------------------------------------------------------------------------
MaxPositions == 2      \* open positions held at once in the ledger model
MaxIds == 2            \* position ids handed out in the ledger model
NumPairs == 2          \* trading pairs a prediction cycle visits
MaxSignals == 2        \* signals the engine creates in one behaviour
MaxPredRuns == 1       \* runPredictionCycle invocations in flight at once
MaxExecRuns == 2       \* executeSignals invocations in flight at once
MaxTicks == 1          \* steps of the clock
TickMs == 400000       \* milliseconds per step of the clock
MaxStarts == 1         \* start() calls that find the engine stopped
MaxPipelineSignals == 12  \* signals generated under SpecPipeline

\* ------------------------------------------------------------------------
\* Program constants
\* ------------------------------------------------------------------------
Scale == 100
InitialUSDT == 10000

Symbols == {"BTC/USDT", "ETH/USDT"}
Assets == {"USDT", "BTC", "ETH"}
Sides == {"BUY", "SELL"}

\* Input domains of the ledger model
EntryPrices == {100}
Ticks == {98, 100, 105}
Quantities == {1 * Scale, 2 * Scale}

VARIABLES
    positions,            \* PortfolioManager.positions, in Map insertion order
    balance,              \* PortfolioManager.balance
    performanceHistory,   \* PortfolioManager.performanceHistory
    lastOp,               \* the last call made directly on the PortfolioManager and its outcome
    risk,                 \* the fields of the RiskManager
    riskCall,             \* the last call made directly on the RiskManager and its result
    strategyCall,         \* the last call made on a signal producer on its own and its result
    exchanges,            \* ExchangeManager.exchanges (the keys of the map)
    activeExchange,       \* ExchangeManager.activeExchange
    orderIds,             \* per exchange, the number of order ids it has handed out
    orders,               \* every order an exchange has accepted, oldest first
    now,                  \* Date.now()
    isRunning,            \* TradingEngine.isRunning
    predictionTask,       \* TradingEngine.predictionTask
    executionTask,        \* TradingEngine.executionTask
    signalQueue,          \* TradingEngine.signalQueue
    predRuns,             \* the runPredictionCycle invocations in flight
    execRuns,             \* the executeSignals invocations in flight
    stopRun,              \* the stop() invocation and its liquidation sweep
    sigCount,             \* signals created so far (generateSignalId)
    pushed,               \* ids of the signals pushed on signalQueue, in push order
    removed,              \* the signals shifted off signalQueue, in shift order
    starts,               \* start() calls that found the engine stopped
    \* StockExchangeManager and StockTradingEngine
    alpacaClient,         \* TRUE when the Alpaca client is connected
    marketOpenTask,       \* the cron task of scheduleMarketOpen: "null", "scheduled", "fired"
    stockIsRunning,       \* StockTradingEngine.isRunning
    scanTask,             \* "null", "scheduled" or "stopped"
    executeTask,          \* "null", "scheduled" or "stopped"
    stockStartRun,        \* "hours" while start() waits for the market hours
    scanRun,              \* the scanForOpportunities invocation in flight
    stockExecRuns,        \* the executeQueuedSignals invocations in flight
    stockSignalQueue,     \* StockTradingEngine.signalQueue
    stockOrders,          \* the orders the stock venue accepted, in order
    stockSigCount,        \* stock signals generated above 0.7 confidence
    stockPushed,          \* ids of the stock signals pushed, in push order
    stockRemoved,         \* the stock signals shifted off the queue, in shift order
    stockStarts,          \* StockTradingEngine.start() calls that found it stopped
    feeds                 \* the maps of the DataFeedManager and the sockets, timers and tasks it created

ledgerVars == <<positions, balance, performanceHistory, lastOp>>
\* the RiskManager and the StrategyManager, which no engine step changes
advisorVars == <<risk, riskCall, strategyCall>>
exchangeVars == <<exchanges, activeExchange, orderIds, orders>>
engineVars == <<isRunning, predictionTask, executionTask, signalQueue, predRuns,
                execRuns, stopRun, sigCount, pushed, removed, starts>>
stockVars == <<alpacaClient, marketOpenTask, stockIsRunning, scanTask, executeTask, stockStartRun, scanRun,
               stockExecRuns, stockSignalQueue, stockOrders, stockSigCount, stockPushed,
               stockRemoved, stockStarts>>
vars == <<positions, balance, performanceHistory, lastOp, risk, riskCall, strategyCall, exchanges,
          activeExchange, orderIds, orders, now, isRunning, predictionTask,
          executionTask, signalQueue, predRuns, execRuns, stopRun, sigCount,
          pushed, removed, starts, alpacaClient, marketOpenTask, stockIsRunning, scanTask, executeTask,
          stockStartRun, scanRun, stockExecRuns, stockSignalQueue, stockOrders,
          stockSigCount, stockPushed, stockRemoved, stockStarts, feeds>>

\* ------------------------------------------------------------------------
\* PortfolioManager
\* ------------------------------------------------------------------------

\* symbol.split('/')[0]
SplitBase(symbol) ==
    CASE symbol = "BTC/USDT" -> "BTC"
      [] symbol = "ETH/USDT" -> "ETH"
      [] symbol = "BTC/EUR" -> "BTC"
      [] symbol = "SOL/USDT" -> "SOL"
      [] symbol = "AVAX/USDT" -> "AVAX"
      [] symbol = "MATIC/USDT" -> "MATIC"
      [] symbol = "BNB/USDT" -> "BNB"
      [] symbol = "ADA/USDT" -> "ADA"

\* symbol.split('/')[1]
SplitQuote(symbol) ==
    CASE symbol = "BTC/EUR" -> "EUR"
      [] OTHER -> "USDT"

initializeBalance == [a \in Assets |-> IF a = "USDT" THEN InitialUSDT * Scale ELSE 0]

NoPrices == [s \in Symbols |-> 0]

\* The three maps of a PortfolioManager as one value.
Ledger == [positions |-> positions, balance |-> balance,
           performanceHistory |-> performanceHistory]

OpenIds(ps) == {ps[i].id : i \in 1..Len(ps)}

GetPosition(ps, id) == ps[CHOOSE i \in 1..Len(ps) : ps[i].id = id]

\* Map.set: an existing key keeps its place, a new key is appended
MapSet(ps, p) ==
    IF p.id \in OpenIds(ps)
    THEN [i \in 1..Len(ps) |-> IF ps[i].id = p.id THEN p ELSE ps[i]]
    ELSE Append(ps, p)

\* Map.delete
MapDelete(ps, id) == SelectSeq(ps, LAMBDA p : p.id # id)

NewPosition(id, symbol, side, entryPrice, quantity, stopLoss, takeProfit) ==
    [id |-> id, symbol |-> symbol, side |-> side, entryPrice |-> entryPrice,
     quantity |-> quantity, stopLoss |-> stopLoss, takeProfit |-> takeProfit,
     currentPrice |-> 0, value |-> 0, unrealizedPnl |-> 0]

\* calculatePnL without the sign change for a SELL position
calculatePnL_Unsigned(position, currentPrice) ==
    (currentPrice - position.entryPrice) * position.quantity

calculatePnL(position, currentPrice) ==
    LET diff == currentPrice - position.entryPrice
    IN  IF position.side = "BUY"
        THEN diff * position.quantity
        ELSE (0 - diff) * position.quantity

\* addPosition, the in-memory part (lines 27-42); the database save follows it
addPosition(L, position) ==
    LET base == SplitBase(position.symbol)
        quote == SplitQuote(position.symbol)
        cost == position.entryPrice * position.quantity
        bal == L.balance
    IN  [L EXCEPT
          !.positions = MapSet(L.positions, position),
          !.balance =
            IF position.side = "BUY"
            THEN [bal EXCEPT ![quote] = bal[quote] - cost,
                             ![base] = bal[base] + position.quantity]
            ELSE [bal EXCEPT ![base] = bal[base] - position.quantity,
                             ![quote] = bal[quote] + cost]]

\* closePosition's balance update with the BUY branch taken for both sides
closeBalance_Unmirrored(bal, position, price) ==
    LET base == SplitBase(position.symbol)
        quote == SplitQuote(position.symbol)
    IN  [bal EXCEPT ![base] = bal[base] - position.quantity,
                    ![quote] = bal[quote] + price * position.quantity]

\* the balance update of closePosition (lines 78-92)
closeBalance(bal, position, price) ==
    LET base == SplitBase(position.symbol)
        quote == SplitQuote(position.symbol)
        proceeds == price * position.quantity
    IN  IF position.side = "BUY"
        THEN [bal EXCEPT ![base] = bal[base] - position.quantity,
                         ![quote] = bal[quote] + proceeds]
        ELSE [bal EXCEPT ![base] = bal[base] + position.quantity,
                         ![quote] = bal[quote] - proceeds]

HistoryLimit == 1000

\* recordPerformance: push, then drop the oldest beyond the limit
recordPerformance(history, trade) ==
    LET appended == Append(history, trade)
    IN  IF Len(appended) > HistoryLimit THEN Tail(appended) ELSE appended

\* exitPrice || position.currentPrice || position.entryPrice
ExitPriceOf(position, exitPrice) ==
    IF exitPrice # 0 THEN exitPrice
    ELSE IF position.currentPrice # 0 THEN position.currentPrice
    ELSE position.entryPrice

\* closePosition that leaves the position in the map
closePosition_KeepsPosition(L, positionId, exitPrice) ==
    LET position == GetPosition(L.positions, positionId)
        price == ExitPriceOf(position, exitPrice)
        pnl == calculatePnL(position, price)
    IN  [positions |-> L.positions,
         balance |-> closeBalance(L.balance, position, price),
         performanceHistory |->
            recordPerformance(L.performanceHistory,
              [positionId |-> positionId, symbol |-> position.symbol,
               side |-> position.side, entryPrice |-> position.entryPrice,
               exitPrice |-> price, quantity |-> position.quantity, pnl |-> pnl])]

\* closePosition for an id that is open, the in-memory part (lines 75-107)
closePosition(L, positionId, exitPrice) ==
    LET position == GetPosition(L.positions, positionId)
        price == ExitPriceOf(position, exitPrice)
        pnl == calculatePnL(position, price)
    IN  [positions |-> MapDelete(L.positions, positionId),
         balance |-> closeBalance(L.balance, position, price),
         performanceHistory |->
            recordPerformance(L.performanceHistory,
              [positionId |-> positionId, symbol |-> position.symbol,
               side |-> position.side, entryPrice |-> position.entryPrice,
               exitPrice |-> price, quantity |-> position.quantity, pnl |-> pnl])]

\* lines 139-141 of updatePrices
Repriced(position, currentPrice) ==
    [position EXCEPT !.currentPrice = currentPrice,
                     !.value = currentPrice * position.quantity,
                     !.unrealizedPnl = calculatePnL(position, currentPrice)]

\* the exit test with a strict stop-loss comparison
ExitTriggered_StrictStop(position, currentPrice) ==
    \/ position.stopLoss # 0 /\ currentPrice < position.stopLoss
    \/ position.takeProfit # 0 /\ currentPrice >= position.takeProfit

\* the exit test of updatePrices (lines 144-150): the same comparison for both sides
ExitTriggered(position, currentPrice) ==
    \/ position.stopLoss # 0 /\ currentPrice <= position.stopLoss
    \/ position.takeProfit # 0 /\ currentPrice >= position.takeProfit

\* updatePrices: the loop over positions.values().  todo holds the ids not yet
\* visited, dbFail the ids whose database.closePosition rejects; a rejection
\* leaves the loop (the await in line 146/149 throws) after the in-memory close.
RECURSIVE updatePricesLoop(_, _, _, _)
updatePricesLoop(L, todo, prices, dbFail) ==
    IF todo = <<>> THEN [ledger |-> L, threw |-> FALSE]
    ELSE
      LET id == Head(todo)
          position == GetPosition(L.positions, id)
          currentPrice == prices[position.symbol]
          repriced == [L EXCEPT !.positions = MapSet(L.positions, Repriced(position, currentPrice))]
      IN  IF id \notin OpenIds(L.positions) \/ currentPrice = 0
          THEN updatePricesLoop(L, Tail(todo), prices, dbFail)
          ELSE IF ExitTriggered(position, currentPrice)
          THEN IF id \in dbFail
               THEN [ledger |-> closePosition(repriced, id, currentPrice), threw |-> TRUE]
               ELSE updatePricesLoop(closePosition(repriced, id, currentPrice),
                                     Tail(todo), prices, dbFail)
          ELSE updatePricesLoop(repriced, Tail(todo), prices, dbFail)

updatePrices(L, prices, dbFail) ==
    updatePricesLoop(L, [i \in 1..Len(L.positions) |-> L.positions[i].id], prices, dbFail)

\* updatePosition for an id that is open, the in-memory part (lines 61-62):
\* { ...position, ...updates } takes every field of updates as it is given
updatePosition(L, positionId, updates) ==
    LET position == GetPosition(L.positions, positionId)
        updatedPosition == [k \in DOMAIN position |->
                              IF k \in DOMAIN updates THEN updates[k] ELSE position[k]]
    IN  [L EXCEPT !.positions = MapSet(L.positions, updatedPosition)]

Abs(x) == IF x < 0 THEN 0 - x ELSE x

\* getOpenPositions: Array.from(this.positions.values())
PortfolioOpenPositions(L) == L.positions

\* a quotient of two numbers, kept exact
Frac(n, d) == [num |-> n, den |-> d]

\* reduce((sum, t) => sum + t.pnl, 0)
RECURSIVE SumPnl(_)
SumPnl(history) ==
    IF history = <<>> THEN 0 ELSE history[1].pnl + SumPnl(Tail(history))

\* sum of (ret - avgReturn)^2 over the trades, times Len(all)^2
RECURSIVE SumSquares(_, _, _)
SumSquares(trades, total, n) ==
    IF trades = <<>> THEN 0
    ELSE (n * trades[1].pnl - total) * (n * trades[1].pnl - total)
           + SumSquares(Tail(trades), total, n)

\* the loop of lines 204-213: maxDrawdown as a quotient
RECURSIVE WalkDrawdown(_, _, _, _)
WalkDrawdown(trades, peak, runningTotal, maxDrawdown) ==
    IF trades = <<>> THEN maxDrawdown
    ELSE LET running == runningTotal + trades[1].pnl
             pk == IF running > peak THEN running ELSE peak
             drawdown == IF pk > 0 THEN Frac(pk - running, pk) ELSE Frac(0, 1)
             larger == drawdown.num * maxDrawdown.den > maxDrawdown.num * drawdown.den
         IN  WalkDrawdown(Tail(trades), pk, running,
                          IF larger THEN drawdown ELSE maxDrawdown)

StartingEquity == 10000

\* the loop of lines 216-221
RECURSIVE EquityCurve(_, _)
EquityCurve(trades, equity) ==
    IF trades = <<>> THEN <<>>
    ELSE <<equity + trades[1].pnl>> \o EquityCurve(Tail(trades), equity + trades[1].pnl)

PnlValues(trades) == {trades[i].pnl : i \in 1..Len(trades)}

\* getPerformanceMetrics.  The result is the object the code returns, with the
\* keys it has; sharpeRatio is kept as the mean and the variance it is computed
\* from (mean / sqrt(variance) * sqrt(252), 0 when the variance is 0).
getPerformanceMetrics(trades) ==
    IF Len(trades) = 0
    THEN [totalTrades |-> 0, winningTrades |-> 0, losingTrades |-> 0, winRate |-> 0,
          totalPnL |-> 0, averagePnL |-> 0, bestTrade |-> 0, worstTrade |-> 0,
          profitFactor |-> 0, expectancy |-> 0]
    ELSE
      LET n == Len(trades)
          winningTrades == SelectSeq(trades, LAMBDA t : t.pnl > 0)
          losingTrades == SelectSeq(trades, LAMBDA t : t.pnl < 0)
          totalPnL == SumPnl(trades)
          grossProfit == SumPnl(winningTrades)
          grossLoss == Abs(SumPnl(losingTrades))
          variance == Frac(SumSquares(trades, totalPnL, n), n * n * n)
      IN  [totalTrades |-> n,
           winningTrades |-> Len(winningTrades),
           losingTrades |-> Len(losingTrades),
           winRate |-> Frac(Len(winningTrades), n),
           totalPnL |-> totalPnL,
           averagePnL |-> Frac(totalPnL, n),
           bestTrade |-> CHOOSE x \in PnlValues(trades) : \A y \in PnlValues(trades) : y <= x,
           worstTrade |-> CHOOSE x \in PnlValues(trades) : \A y \in PnlValues(trades) : y >= x,
           profitFactor |-> IF grossLoss > 0 THEN Frac(grossProfit, grossLoss) ELSE Frac(0, 1),
           expectancy |-> Frac(totalPnL, n),
           averageWin |-> IF Len(winningTrades) > 0
                          THEN Frac(grossProfit, Len(winningTrades)) ELSE Frac(0, 1),
           averageLoss |-> IF Len(losingTrades) > 0
                           THEN Frac(grossLoss, Len(losingTrades)) ELSE Frac(0, 1),
           sharpeRatio |-> IF variance.num > 0
                           THEN [mean |-> Frac(totalPnL, n), variance |-> variance]
                           ELSE [mean |-> Frac(0, 1), variance |-> Frac(0, 1)],
           maxDrawdown |-> WalkDrawdown(trades, 0, 0, Frac(0, 1)),
           equityCurve |-> EquityCurve(trades, StartingEquity * Scale)]

RecentTradesLimit == 20

\* Array.slice(-k)
LastN(seq, k) ==
    IF Len(seq) <= k THEN seq ELSE SubSeq(seq, Len(seq) - k + 1, Len(seq))

\* the object exportPortfolio builds for a position (lines 277-285)
ExportedPosition(p) ==
    [id |-> p.id, symbol |-> p.symbol, side |-> p.side, quantity |-> p.quantity,
     entryPrice |-> p.entryPrice, currentPrice |-> p.currentPrice,
     unrealizedPnl |-> p.unrealizedPnl]

\* exportPortfolio at time t
exportPortfolio(L, t) ==
    LET ps == PortfolioOpenPositions(L)
    IN  [timestamp |-> t,
         balance |-> L.balance,
         positions |-> [i \in 1..Len(ps) |-> ExportedPosition(ps[i])],
         performance |-> getPerformanceMetrics(L.performanceHistory),
         recentTrades |-> LastN(L.performanceHistory, RecentTradesLimit)]

\* reading a key of an object: a key it does not have reads as 0 (undefined)
Field(obj, key) == IF key \in DOMAIN obj THEN obj[key] ELSE 0

\* an imported object seen as a Position
AsPosition(pos) ==
    [id |-> pos.id, symbol |-> pos.symbol, side |-> pos.side,
     entryPrice |-> pos.entryPrice, quantity |-> pos.quantity,
     stopLoss |-> Field(pos, "stopLoss"), takeProfit |-> Field(pos, "takeProfit"),
     currentPrice |-> Field(pos, "currentPrice"), value |-> Field(pos, "value"),
     unrealizedPnl |-> Field(pos, "unrealizedPnl")]

RECURSIVE SetAll(_, _)
SetAll(ps, imported) ==
    IF imported = <<>> THEN ps
    ELSE SetAll(MapSet(ps, AsPosition(imported[1])), Tail(imported))

\* importPortfolio of data that has the three keys
importPortfolio(data) ==
    [positions |-> SetAll(<<>>, data.positions),
     balance |-> data.balance,
     performanceHistory |-> data.recentTrades]

SetLedger(L) ==
    /\ positions' = L.positions
    /\ balance' = L.balance
    /\ performanceHistory' = L.performanceHistory

\* ids that were ever given to a position of this ledger
UsedIds == OpenIds(positions) \cup {performanceHistory[i].positionId : i \in 1..Len(performanceHistory)}

\* stop-loss / take-profit pairs a caller attaches to a position: none, or the
\* 2% / 5% levels TradingEngine computes for the side
ProtectionLevels(side, price) ==
    {<<0, 0>>,
     IF side = "BUY" THEN <<(price * 98) \div 100, (price * 105) \div 100>>
                     ELSE <<(price * 102) \div 100, (price * 95) \div 100>>}

\* ------------------------------------------------------------------------
\* RiskManager
\* Fractions are kept as integers: confidence and volatility in percent,
\* maxDrawdown in basis points, riskPerTrade as the quotient of riskPerTrade
\* basis points by riskPerTradeDen (1 until adjustRiskParameters scales it by
\* 0.5 or 1.1).  currentDrawdown is the quotient
\* num / den of the division that produced it; den = 0 stands for the
\* non-finite results of a division by zero (NaN when num = 0, Infinity otherwise).
\* ------------------------------------------------------------------------
DefaultMaxPositionSize == 10000
DefaultMaxDrawdownBp == 2000
DefaultRiskPerTradeBp == 200
DefaultMaxOpenPositions == 10

\* loadRiskParameters: config.maxOpenPositions || 10 and the other defaults
loadRiskParameters(configMaxOpenPositions) ==
    [maxPositionSize |-> DefaultMaxPositionSize,
     maxDrawdown |-> DefaultMaxDrawdownBp,
     riskPerTrade |-> DefaultRiskPerTradeBp,
     riskPerTradeDen |-> 1,
     maxOpenPositions |-> IF configMaxOpenPositions # 0 THEN configMaxOpenPositions
                          ELSE DefaultMaxOpenPositions,
     currentDrawdown |-> [num |-> 0, den |-> 1],
     peakBalance |-> 0]

MockAccountBalance == 10000
MockOpenPositionsCount == 3

\* getAccountBalance (mock)
getAccountBalance == MockAccountBalance

\* getOpenPositionsCount (mock): a fixed number, not the ledger's count
getOpenPositionsCount == MockOpenPositionsCount

\* getOpenPositions (mock): always empty, whatever the ledger holds
getOpenPositions == <<>>

HighCorrelationPairs == {{"BTC", "ETH"}, {"SOL", "AVAX"}, {"MATIC", "BNB"}}

\* calculateBaseCorrelation, in percent
calculateBaseCorrelation(symbol1, symbol2) ==
    LET base1 == SplitBase(symbol1)
        base2 == SplitBase(symbol2)
    IN  IF base1 = base2 THEN 100
        ELSE IF \E pair \in HighCorrelationPairs : base1 \in pair /\ base2 \in pair THEN 70
        ELSE 30

\* getCorrelation: calculateBaseCorrelation behind a cache keyed by
\* (symbol1, symbol2) that only remembers what it computed
getCorrelation(symbol1, symbol2) == calculateBaseCorrelation(symbol1, symbol2)

\* the loop of checkCorrelationRisk over a list of positions, in percent
RECURSIVE maxCorrelation(_, _)
maxCorrelation(symbol, ps) ==
    IF ps = <<>> THEN 0
    ELSE LET c == Abs(getCorrelation(symbol, ps[1].symbol))
             m == maxCorrelation(symbol, Tail(ps))
         IN  IF c > m THEN c ELSE m

\* checkCorrelationRisk: the loop runs over the mock's positions
checkCorrelationRisk(symbol) == maxCorrelation(symbol, getOpenPositions)

\* calculateKellyFraction as the fraction KellyNum / KellyDen:
\* max(0, 0.25 * (p * b - q) / b) with b = winAmount / lossAmount
\*   = max(0, p * winAmount - q * lossAmount) / (4 * winAmount), p and q in percent
KellyNum(signal) ==
    LET winAmount == Abs(signal.targetPrice - signal.price)
        lossAmount == Abs(signal.price - signal.stopLoss)
        n == signal.confidence * winAmount - (100 - signal.confidence) * lossAmount
    IN  IF n < 0 THEN 0 ELSE n

\* the denominator without the 0.25 safety factor
KellyDen_NoSafety(signal) ==
    LET winAmount == Abs(signal.targetPrice - signal.price)
    IN  IF winAmount = 0 THEN 1 ELSE 100 * winAmount

\* with winAmount = 0 and q > 0 the quotient is -Infinity, floored to 0 = 0 / 1
KellyDen(signal) ==
    LET winAmount == Abs(signal.targetPrice - signal.price)
    IN  IF winAmount = 0 THEN 1 ELSE 400 * winAmount

\* calculateKellyFraction returns NaN: odds is Infinity or NaN when lossAmount
\* is 0, and (p * odds - q) / odds is 0 / 0 when winAmount and q are both 0;
\* Math.max(0, NaN) is NaN
KellyIsNaN(signal) ==
    LET winAmount == Abs(signal.targetPrice - signal.price)
        lossAmount == Abs(signal.price - signal.stopLoss)
    IN  lossAmount = 0 \/ (winAmount = 0 /\ signal.confidence = 100)

\* getVolatilityMultiplier with the tiers in reverse order
getVolatilityMultiplier_Reversed(signal) ==
    LET volatility == IF signal.volatility # 0 THEN signal.volatility ELSE 10
    IN  IF volatility > 30 THEN 10
        ELSE IF volatility > 20 THEN 9
        ELSE IF volatility > 10 THEN 7
        ELSE 5

\* getVolatilityMultiplier in tenths; volatility || 0.1
getVolatilityMultiplier(signal) ==
    LET volatility == IF signal.volatility # 0 THEN signal.volatility ELSE 10
    IN  IF volatility > 30 THEN 5
        ELSE IF volatility > 20 THEN 7
        ELSE IF volatility > 10 THEN 9
        ELSE 10

\* validateSignal: the six checks in their order
\* currentDrawdown > maxDrawdown: Infinity exceeds it, NaN compares false
DrawdownExceeds(r) ==
    IF r.currentDrawdown.den = 0 THEN r.currentDrawdown.num > 0
    ELSE r.currentDrawdown.num * 10000 > r.maxDrawdown * r.currentDrawdown.den

\* validateSignal without the volatility check
validateSignal_NoVolatilityCheck(r, signal) ==
    IF DrawdownExceeds(r) THEN FALSE
    ELSE IF getOpenPositionsCount >= r.maxOpenPositions THEN FALSE
    ELSE IF checkCorrelationRisk(signal.symbol) > 80 THEN FALSE
    ELSE IF signal.confidence < 65 THEN FALSE
    ELSE IF ~KellyIsNaN(signal) /\ KellyNum(signal) * 100 < KellyDen(signal) THEN FALSE
    ELSE TRUE

validateSignal(r, signal) ==
    IF DrawdownExceeds(r) THEN FALSE
    ELSE IF getOpenPositionsCount >= r.maxOpenPositions THEN FALSE
    ELSE IF checkCorrelationRisk(signal.symbol) > 80 THEN FALSE
    ELSE IF signal.confidence < 65 THEN FALSE
    ELSE IF signal.volatility > 50 THEN FALSE
    ELSE IF ~KellyIsNaN(signal) /\ KellyNum(signal) * 100 < KellyDen(signal) THEN FALSE
    ELSE TRUE

\* the warning validateSignal logs on its way out (lines 32, 39, 46, 52, 59,
\* 66), "" when it logs none
validateSignalWarning(r, signal) ==
    IF DrawdownExceeds(r) THEN "Maximum drawdown exceeded"
    ELSE IF getOpenPositionsCount >= r.maxOpenPositions THEN "Maximum open positions reached"
    ELSE IF checkCorrelationRisk(signal.symbol) > 80 THEN "High correlation risk"
    ELSE IF signal.confidence < 65 THEN "Low confidence signal"
    ELSE IF signal.volatility > 50 THEN "High volatility"
    ELSE IF ~KellyIsNaN(signal) /\ KellyNum(signal) * 100 < KellyDen(signal)
    THEN "Kelly fraction too low"
    ELSE ""

MinimumSize == 10

\* the value standing for a NaN result of calculatePositionSize; sizes are >= 0
NaN == 0 - 1

RECURSIVE Gcd(_, _)
Gcd(a, b) == IF b = 0 THEN a ELSE Gcd(b, a % b)

\* calculatePositionSize, the result in hundredths of a unit:
\*   riskAmount / stopLossDistance * min(kelly, 0.25) * volatilityMultiplier,
\*   capped at maxPositionSize, 0 below the minimum, rounded to 2 decimals.
\* A NaN Kelly fraction goes through Math.min, the products, the comparison
\* with the minimum and Math.round, and is returned; with a Kelly fraction
\* that is a number, lossAmount = stopLossDistance is not 0.
calculatePositionSize(r, signal) ==
    LET stopLossDistance == Abs(signal.price - signal.stopLoss)
        kn == KellyNum(signal)
        kd == KellyDen(signal)
        capped == kn * 4 > kd                      \* Math.min(kellyFraction, 0.25)
        fn == IF capped THEN 1 ELSE kn
        fd == IF capped THEN 4 ELSE kd
        \* riskAmount / stopLossDistance = bn / bd
        bn == getAccountBalance * r.riskPerTrade
        bd == 10000 * r.riskPerTradeDen * stopLossDistance
        \* both fractions in lowest terms, to keep the products small
        g1 == Gcd(bn, bd)
        g2 == Gcd(fn, fd)
        num == (bn \div g1) * (fn \div g2) * getVolatilityMultiplier(signal)
        den == (bd \div g1) * (fd \div g2) * 10
    IN  IF KellyIsNaN(signal) THEN NaN
        ELSE IF num > r.maxPositionSize * den THEN r.maxPositionSize * Scale
        ELSE IF num < MinimumSize * den THEN 0
        ELSE (2 * Scale * num + den) \div (2 * den)

\* calculateProfitFactor over the completed trades (RiskManager reads them
\* from getCompletedTrades; here they are given)
calculateProfitFactor(trades) ==
    LET grossProfit == SumPnl(SelectSeq(trades, LAMBDA t : t.pnl > 0))
        grossLoss == Abs(SumPnl(SelectSeq(trades, LAMBDA t : t.pnl < 0)))
    IN  IF grossLoss > 0 THEN Frac(grossProfit, grossLoss) ELSE Frac(grossProfit, 1)

\* updateDrawdown
updateDrawdown(r, currentBalance) ==
    LET peak == IF currentBalance > r.peakBalance THEN currentBalance ELSE r.peakBalance
    IN  [r EXCEPT !.peakBalance = peak,
                  !.currentDrawdown = [num |-> peak - currentBalance, den |-> peak]]

\* ------------------------------------------------------------------------
\* TradingEngine: signals
\* ------------------------------------------------------------------------
NoSignal ==
    [id |-> 0, symbol |-> "", action |-> "", price |-> 0, targetPrice |-> 0,
     stopLoss |-> 0, takeProfit |-> 0, confidence |-> 0, volatility |-> 0,
     timestamp |-> 0]

\* no call has been made on the RiskManager itself yet.  A call records its
\* name, its argument and its result; seen collects the balances given to
\* updateDrawdown so far
NoRiskCall ==
    [op |-> "none", signal |-> NoSignal, valid |-> FALSE, size |-> 0,
     balance |-> 0, seen |-> {}, threw |-> FALSE, warning |-> "",
     metrics |-> [currentDrawdown |-> 0, winRate |-> 0, profitFactor |-> 0]]

calculateStopLoss(price, direction) ==
    IF direction = "up" THEN (price * 98) \div 100 ELSE (price * 102) \div 100

calculateTakeProfit(price, direction) ==
    IF direction = "up" THEN (price * 105) \div 100 ELSE (price * 95) \div 100

\* analyzeSignal with both gates strict: a confidence of exactly 0.65 and a
\* change of exactly 1% give null
analyzeSignal_StrictGates(pair, prediction, marketData, id, t) ==
    IF prediction.confidence <= 65 THEN NoSignal
    ELSE IF Abs(prediction.predictedPrice - marketData.price) * 100 <= marketData.price
    THEN NoSignal
    ELSE [id |-> id, symbol |-> pair,
          action |-> IF prediction.direction = "up" THEN "BUY" ELSE "SELL",
          price |-> marketData.price,
          targetPrice |-> prediction.predictedPrice,
          stopLoss |-> calculateStopLoss(marketData.price, prediction.direction),
          takeProfit |-> calculateTakeProfit(marketData.price, prediction.direction),
          confidence |-> prediction.confidence,
          volatility |-> marketData.volatility,
          timestamp |-> t]

\* analyzeSignal: NoSignal for null
analyzeSignal(pair, prediction, marketData, id, t) ==
    IF prediction.confidence < 65 THEN NoSignal
    ELSE IF Abs(prediction.predictedPrice - marketData.price) * 100 < marketData.price
    THEN NoSignal
    ELSE [id |-> id, symbol |-> pair,
          action |-> IF prediction.direction = "up" THEN "BUY" ELSE "SELL",
          price |-> marketData.price,
          targetPrice |-> prediction.predictedPrice,
          stopLoss |-> calculateStopLoss(marketData.price, prediction.direction),
          takeProfit |-> calculateTakeProfit(marketData.price, prediction.direction),
          confidence |-> prediction.confidence,
          volatility |-> marketData.volatility,
          timestamp |-> t]

\* ------------------------------------------------------------------------
\* StrategyManager: MomentumStrategy and MeanReversionStrategy
\* Market data: price, indicators.rsi (0 when missing), indicators.macd
\* (hasMacd, histogram), indicators.bollinger (hasBollinger, the three bands)
\* ------------------------------------------------------------------------
StrategySignal(marketData, id, action, targetPrice, stopLoss, takeProfit, confidence, t) ==
    [id |-> id, symbol |-> marketData.symbol, action |-> action,
     price |-> marketData.price, targetPrice |-> targetPrice,
     stopLoss |-> stopLoss, takeProfit |-> takeProfit,
     confidence |-> confidence, volatility |-> 0, timestamp |-> t]

\* price * pct / 100
Pct(price, pct) == (price * pct) \div 100

\* MomentumStrategy.analyze
MomentumAnalyze(marketData, id, t) ==
    LET rsi == IF marketData.rsi # 0 THEN marketData.rsi ELSE 50
        histogram == IF marketData.hasMacd THEN marketData.histogram ELSE 0
        price == marketData.price
    IN  IF rsi < 30 /\ marketData.hasMacd /\ histogram > 0
        THEN StrategySignal(marketData, id, "BUY", Pct(price, 103), Pct(price, 98),
                            Pct(price, 105), 70, t)
        ELSE IF rsi > 70 /\ marketData.hasMacd /\ histogram < 0
        THEN StrategySignal(marketData, id, "SELL", Pct(price, 97), Pct(price, 102),
                            Pct(price, 95), 70, t)
        ELSE NoSignal

\* MeanReversionStrategy.analyze with the upper stop used for both sides
MeanReversionAnalyze_SameStop(marketData, id, t) ==
    LET bollinger == marketData.bollinger
        price == marketData.price
    IN  IF ~marketData.hasBollinger THEN NoSignal
        ELSE IF price < bollinger.lower
        THEN StrategySignal(marketData, id, "BUY", bollinger.middle, Pct(price, 103),
                            bollinger.middle, 65, t)
        ELSE IF price > bollinger.upper
        THEN StrategySignal(marketData, id, "SELL", bollinger.middle, Pct(price, 103),
                            bollinger.middle, 65, t)
        ELSE NoSignal

\* MeanReversionStrategy.analyze
MeanReversionAnalyze(marketData, id, t) ==
    LET bollinger == marketData.bollinger
        price == marketData.price
    IN  IF ~marketData.hasBollinger THEN NoSignal
        ELSE IF price < bollinger.lower
        THEN StrategySignal(marketData, id, "BUY", bollinger.middle, Pct(price, 97),
                            bollinger.middle, 65, t)
        ELSE IF price > bollinger.upper
        THEN StrategySignal(marketData, id, "SELL", bollinger.middle, Pct(price, 103),
                            bollinger.middle, 65, t)
        ELSE NoSignal

\* DataFeedManager.calculateBollingerBands: all 0 with fewer than 20 prices,
\* else the mean and the mean -/+ twice the standard deviation (width)
calculateBollingerBands(enough, sma, width) ==
    IF ~enough THEN [upper |-> 0, middle |-> 0, lower |-> 0]
    ELSE [upper |-> sma + width, middle |-> sma, lower |-> sma - width]

\* no producer has been called on its own yet
\* no forecast: the strategies are given market data only
NoPrediction == [confidence |-> 0, direction |-> "", predictedPrice |-> 0]

NoStrategyCall == [op |-> "none", price |-> 0, prediction |-> NoPrediction, signal |-> NoSignal]

StaleMs == 300000

\* the staleness test with twice the limit
IsStale_DoubleLimit(signal, t) == t - signal.timestamp > StaleMs * 2

\* Date.now() - signal.timestamp > 300000
IsStale(signal, t) == t - signal.timestamp > StaleMs

\* signalQueue.pop() in place of signalQueue.shift()
DequeueSignal_Pop(queue) ==
    [signal |-> queue[Len(queue)], rest |-> SubSeq(queue, 1, Len(queue) - 1)]

\* signalQueue.shift()
DequeueSignal(queue) == [signal |-> Head(queue), rest |-> Tail(queue)]

\* ------------------------------------------------------------------------
\* ExchangeManager
\* ------------------------------------------------------------------------

\* initialize(): 'binance' is registered only with BINANCE_API_KEY/SECRET set,
\* 'paper' always, and the paper exchange becomes the active one
initializeExchanges(credentials) ==
    IF credentials THEN {"binance", "paper"} ELSE {"paper"}

\* getExchange(name): the key looked up; "" stands for no argument
ExchangeKey(name) == IF name # "" THEN name ELSE activeExchange

\* getExchange(name) does not throw
HasExchange(name) == ExchangeKey(name) \in exchanges

\* exchange.createOrder resolved: the order is on the exchange's books under
\* the next id of that exchange (createPaperOrder for 'paper', the venue's own
\* id otherwise); ref names the signal or position the order was placed for
createOrder(book, exchange, type, ref) ==
    LET id == book.orderIds[exchange] + 1
    IN  [orders |-> Append(book.orders,
                      [exchange |-> exchange, id |-> id, type |-> type, ref |-> ref]),
         orderIds |-> [book.orderIds EXCEPT ![exchange] = id]]

Book == [orders |-> orders, orderIds |-> orderIds]

SetBook(book) ==
    /\ orders' = book.orders
    /\ orderIds' = book.orderIds

\* ------------------------------------------------------------------------
\* TradingEngine
\* ------------------------------------------------------------------------
tradingPairs == <<"BTC/USDT", "ETH/USDT">>

\* the exchange every order of the engine is sent to (getExchange('binance'))
EngineExchange == "binance"

\* forecasts of the predictor and market snapshots drawn in the model
Forecasts ==
    {[confidence |-> 80, direction |-> "up", predictedPrice |-> 105],
     [confidence |-> 80, direction |-> "down", predictedPrice |-> 95],
     [confidence |-> 60, direction |-> "up", predictedPrice |-> 105]}

MarketSnapshots == {[price |-> 100, volatility |-> 5]}

IdlePred == [pc |-> "idle", idx |-> 0]
IdleExec == [pc |-> "idle", signal |-> NoSignal, amount |-> 0, orderId |-> 0, status |-> ""]
IdleStop == [pc |-> "idle", todo |-> <<>>, orderFailed |-> FALSE, restarted |-> FALSE]

FreeSlots(runs) == {i \in DOMAIN runs : runs[i].pc = "idle"}

\* the slot a new invocation takes
NextSlot(runs) == CHOOSE i \in FreeSlots(runs) : \A j \in FreeSlots(runs) : i <= j

\* the while loop of executeSignals from its head up to the next await that
\* waits for the venue: stale signals, signals sized 0 and signals whose
\* executeOrder fails in getExchange are shifted off and dropped on the way
RECURSIVE executeLoop(_, _)
executeLoop(queue, log) ==
    IF queue = <<>>
    THEN [queue |-> queue, removed |-> log, run |-> IdleExec]
    ELSE
      LET d == DequeueSignal(queue)
          signal == d.signal
          log2 == Append(log, [id |-> signal.id, timestamp |-> signal.timestamp, at |-> now])
          positionSize == calculatePositionSize(risk, signal)
      IN  IF IsStale(signal, now) THEN executeLoop(d.rest, log2)
          ELSE IF positionSize = 0 THEN executeLoop(d.rest, log2)
          ELSE IF ~HasExchange(EngineExchange) THEN executeLoop(d.rest, log2)
          ELSE [queue |-> d.rest, removed |-> log2,
                run |-> [pc |-> "entry", signal |-> signal,
                         amount |-> positionSize, orderId |-> 0, status |-> ""]]

\* the executeSignals invocation in slot i goes round its loop
ContinueExec(i) ==
    LET r == executeLoop(signalQueue, removed)
    IN  /\ signalQueue' = r.queue
        /\ removed' = r.removed
        /\ execRuns' = [execRuns EXCEPT ![i] = r.run]

\* start()
Start ==
    /\ ~isRunning
    /\ starts < MaxStarts
    /\ stockStarts = 0
    /\ starts' = starts + 1
    /\ FreeSlots(predRuns) # {}
    /\ isRunning' = TRUE
    /\ predictionTask' = "scheduled"
    /\ executionTask' = "scheduled"
    /\ predRuns' = [predRuns EXCEPT ![NextSlot(predRuns)] = [pc |-> "data", idx |-> 1]]
    /\ stopRun' = IF stopRun.pc = "sweep" THEN [stopRun EXCEPT !.restarted = TRUE] ELSE stopRun
    /\ UNCHANGED <<ledgerVars, advisorVars, exchangeVars, now, feeds, signalQueue, execRuns,
                   sigCount, pushed, removed,
                   stockVars>>

\* ------------------------------------------------------------------------
\* DataFeedManager
\* ------------------------------------------------------------------------
MaxFeedStarts == 2     \* startFeed calls per symbol

\* per symbol: websocket is the socket websockets holds ("none": no entry;
\* an entry whose socket has dropped is "closed"), openSockets the sockets
\* that are open, reconnectTimers the pending setTimeout calls of the 'close'
\* handler, taskMapped whether updateTasks has an entry, tasks the cron tasks
\* that are running, updating the updateMarketData calls in flight, cached
\* whether dataCache has an entry; starts counts the startFeed calls, stopped
\* tells that stopFeed(symbol) has completed since the last startFeed(symbol);
\* allStopped that stopAllFeeds has completed since the last startFeed
InitFeeds ==
    [websocket |-> [s \in Symbols |-> "none"],
     openSockets |-> [s \in Symbols |-> 0],
     reconnectTimers |-> [s \in Symbols |-> 0],
     taskMapped |-> [s \in Symbols |-> FALSE],
     tasks |-> [s \in Symbols |-> 0],
     updating |-> [s \in Symbols |-> 0],
     cached |-> [s \in Symbols |-> FALSE],
     starts |-> [s \in Symbols |-> 0],
     stopped |-> [s \in Symbols |-> FALSE],
     allStopped |-> FALSE]

\* initWebSocket(symbol): skipped when the active exchange is the paper one;
\* otherwise a new socket is opened and stored under the symbol
initWebSocket(f, symbol, active) ==
    IF active = "paper" THEN f
    ELSE [f EXCEPT !.websocket[symbol] = "open",
                   !.openSockets[symbol] = f.openSockets[symbol] + 1]

\* startFeed(symbol) up to its wait for the first updateMarketData
startFeed(f, symbol, active) ==
    LET g == initWebSocket(f, symbol, active)
    IN  [g EXCEPT !.tasks[symbol] = g.tasks[symbol] + 1,
                  !.taskMapped[symbol] = TRUE,
                  !.updating[symbol] = g.updating[symbol] + 1,
                  !.starts[symbol] = g.starts[symbol] + 1,
                  !.stopped[symbol] = FALSE,
                  !.allStopped = FALSE]

\* stopFeed(symbol): ws.close() on the stored socket, whose 'close' handler
\* sets the reconnect timer as for a dropped socket; the stored task is
\* stopped; both entries and the cache entry are deleted
stopFeed(f, symbol) ==
    [f EXCEPT !.openSockets[symbol] =
                 IF f.websocket[symbol] = "open" THEN f.openSockets[symbol] - 1
                 ELSE f.openSockets[symbol],
              !.reconnectTimers[symbol] =
                 IF f.websocket[symbol] = "open" THEN f.reconnectTimers[symbol] + 1
                 ELSE f.reconnectTimers[symbol],
              !.websocket[symbol] = "none",
              !.tasks[symbol] = IF f.taskMapped[symbol] THEN f.tasks[symbol] - 1
                                ELSE f.tasks[symbol],
              !.taskMapped[symbol] = FALSE,
              !.cached[symbol] = FALSE,
              !.stopped[symbol] = TRUE]

\* stopAllFeeds: stopFeed for every key of dataCache
RECURSIVE StopEach(_, _)
StopEach(f, symbols) ==
    IF symbols = {} THEN f
    ELSE LET s == CHOOSE x \in symbols : TRUE
         IN  StopEach(stopFeed(f, s), symbols \ {s})

stopAllFeeds(f) ==
    [StopEach(f, {s \in Symbols : f.cached[s]}) EXCEPT !.allStopped = TRUE]

\* the prediction timer fires: runPredictionCycle up to its first await
PredictionTick ==
    /\ predictionTask = "scheduled"
    /\ isRunning
    /\ FreeSlots(predRuns) # {}
    /\ predRuns' = [predRuns EXCEPT ![NextSlot(predRuns)] = [pc |-> "data", idx |-> 1]]
    /\ UNCHANGED <<ledgerVars, advisorVars, exchangeVars, now, feeds, isRunning, predictionTask,
                   executionTask, signalQueue, execRuns, stopRun, sigCount, pushed, removed, starts,
                   stockVars>>

\* getMarketData and predict resolve for the pair of run i: the rest of the
\* loop body (analyzeSignal, validateSignal, push, emit) runs without waiting
\* for anything outside the process; failed: one of the two awaits threw
PredictionData(i) ==
    /\ predRuns[i].pc = "data"
    /\ \E failed \in BOOLEAN, prediction \in Forecasts, marketData \in MarketSnapshots :
         LET pair == tradingPairs[predRuns[i].idx]
             signal == IF failed THEN NoSignal
                       ELSE analyzeSignal(pair, prediction, marketData, sigCount + 1, now)
             accepted == signal # NoSignal /\ validateSignal(risk, signal)
         IN  /\ signal # NoSignal => sigCount < MaxSignals
             /\ sigCount' = IF signal # NoSignal THEN sigCount + 1 ELSE sigCount
             /\ signalQueue' = IF accepted THEN Append(signalQueue, signal) ELSE signalQueue
             /\ pushed' = IF accepted THEN Append(pushed, signal.id) ELSE pushed
    /\ predRuns' = [predRuns EXCEPT ![i] =
                      IF predRuns[i].idx < NumPairs
                      THEN [pc |-> "data", idx |-> predRuns[i].idx + 1]
                      ELSE IdlePred]
    /\ UNCHANGED <<ledgerVars, advisorVars, exchangeVars, now, feeds, isRunning, predictionTask,
                   executionTask, execRuns, stopRun, removed, starts,
                   stockVars>>

\* the execution timer fires: executeSignals up to its first wait for the venue
ExecutionTick ==
    /\ executionTask = "scheduled"
    /\ isRunning
    /\ signalQueue # <<>>
    /\ FreeSlots(execRuns) # {}
    /\ ContinueExec(NextSlot(execRuns))
    /\ UNCHANGED <<ledgerVars, advisorVars, exchangeVars, now, feeds, isRunning, predictionTask,
                   executionTask, predRuns, stopRun, sigCount, pushed, starts,
                   stockVars>>

\* the answer to the entry order with a rejected signal put back on the queue
EntryOrderResult_Requeue(i) ==
    /\ execRuns[i].pc = "entry"
    /\ \E ok \in BOOLEAN, status \in {"open", "closed"} :
         IF ok
         THEN LET book == createOrder(Book, ExchangeKey(EngineExchange), "limit",
                                      execRuns[i].signal.id)
              IN  /\ SetBook(book)
                  /\ execRuns' = [execRuns EXCEPT ![i].pc = "protect",
                                    ![i].orderId = book.orderIds[ExchangeKey(EngineExchange)],
                                    ![i].status = status]
                  /\ UNCHANGED <<signalQueue, removed>>
         ELSE LET r == executeLoop(Append(signalQueue, execRuns[i].signal), removed)
              IN  /\ signalQueue' = r.queue
                  /\ removed' = r.removed
                  /\ execRuns' = [execRuns EXCEPT ![i] = r.run]
                  /\ UNCHANGED <<orders, orderIds>>
    /\ UNCHANGED <<ledgerVars, advisorVars, exchanges, activeExchange, now, feeds, isRunning,
                   predictionTask, executionTask, predRuns, stopRun, sigCount, pushed, starts,
                   stockVars>>

\* the venue answers the entry order of run i (executeOrder, lines 246-252):
\* it rejects the order, or accepts it and reports it as resting on its books
\* (status 'open', filled 0) or as filled (status 'closed')
EntryOrderResult(i) ==
    /\ execRuns[i].pc = "entry"
    /\ \E ok \in BOOLEAN, status \in {"open", "closed"} :
         IF ok
         THEN LET book == createOrder(Book, ExchangeKey(EngineExchange), "limit",
                                      execRuns[i].signal.id)
              IN  /\ SetBook(book)
                  /\ execRuns' = [execRuns EXCEPT ![i].pc = "protect",
                                    ![i].orderId = book.orderIds[ExchangeKey(EngineExchange)],
                                    ![i].status = status]
                  /\ UNCHANGED <<signalQueue, removed>>
         ELSE /\ ContinueExec(i)
              /\ UNCHANGED <<orders, orderIds>>
    /\ UNCHANGED <<ledgerVars, advisorVars, exchanges, activeExchange, now, feeds, isRunning,
                   predictionTask, executionTask, predRuns, stopRun, sigCount, pushed, starts,
                   stockVars>>

\* the venue answers the stop-loss and the take-profit order of run i
\* (setProtectionOrders; a rejected stop-loss skips the take-profit), then
\* executeSignals registers the position: addPosition changes the ledger and
\* waits for the database
ProtectionResult(i) ==
    /\ execRuns[i].pc = "protect"
    /\ \E placed \in {<<>>, <<"stop_loss">>, <<"stop_loss", "take_profit">>} :
         LET signal == execRuns[i].signal
             ex == ExchangeKey(EngineExchange)
             b1 == IF Len(placed) >= 1 THEN createOrder(Book, ex, placed[1], signal.id) ELSE Book
             b2 == IF Len(placed) >= 2 THEN createOrder(b1, ex, placed[2], signal.id) ELSE b1
         IN  /\ SetBook(b2)
             /\ SetLedger(addPosition(Ledger,
                   NewPosition(execRuns[i].orderId, signal.symbol, signal.action,
                               signal.price, execRuns[i].amount,
                               signal.stopLoss, signal.takeProfit)))
    /\ execRuns' = [execRuns EXCEPT ![i].pc = "save", ![i].status = ""]
    /\ UNCHANGED <<lastOp, advisorVars, exchanges, activeExchange, now, feeds, isRunning, predictionTask,
                   executionTask, signalQueue, predRuns, stopRun, sigCount, pushed, removed, starts,
                   stockVars>>

\* database.savePosition settles for run i; a rejection is caught by the loop
\* body's catch, and the loop goes on either way (the two outcomes differ only
\* in what is logged and in the 'order-executed' event)
SavePositionResult(i) ==
    /\ execRuns[i].pc = "save"
    /\ ContinueExec(i)
    /\ UNCHANGED <<ledgerVars, advisorVars, exchangeVars, now, feeds,
                   isRunning, predictionTask, executionTask, predRuns, stopRun,
                   sigCount, pushed, starts,
                   stockVars>>

\* stop(): both tasks are stopped and closeAllPositions takes its snapshot of
\* the open positions; without the engine's exchange every closePosition of the
\* sweep throws in getExchange and stop() returns at once
Stop ==
    /\ isRunning
    /\ stopRun.pc # "sweep"
    /\ isRunning' = FALSE
    /\ predictionTask' = "stopped"
    /\ executionTask' = "stopped"
    /\ stopRun' =
         IF positions = <<>> \/ ~HasExchange(EngineExchange)
         THEN [pc |-> "returned", todo |-> <<>>, orderFailed |-> FALSE, restarted |-> FALSE]
         ELSE [pc |-> "sweep", todo |-> [k \in 1..Len(positions) |-> positions[k].id],
               orderFailed |-> FALSE, restarted |-> FALSE]
    /\ UNCHANGED <<ledgerVars, advisorVars, exchangeVars, now, feeds, signalQueue, predRuns, execRuns,
                   sigCount, pushed, removed, starts,
                   stockVars>>

\* the sweep with a failed close ending closeAllPositions
SweepOrderResult_AbortOnFailure ==
    /\ stopRun.pc = "sweep"
    /\ \E ok \in BOOLEAN :
         LET id == Head(stopRun.todo)
             rest == Tail(stopRun.todo)
             open == id \in OpenIds(positions)
         IN  /\ IF ok
                THEN SetBook(createOrder(Book, ExchangeKey(EngineExchange), "market", id))
                ELSE UNCHANGED <<orders, orderIds>>
             /\ IF ok /\ open
                THEN SetLedger(closePosition(Ledger, id, 0))
                ELSE UNCHANGED <<positions, balance, performanceHistory>>
             /\ stopRun' = [stopRun EXCEPT
                              !.pc = IF rest = <<>> \/ ~ok THEN "returned" ELSE "sweep",
                              !.todo = IF ok THEN rest ELSE stopRun.todo,
                              !.orderFailed = stopRun.orderFailed \/ ~ok]
    /\ UNCHANGED <<lastOp, advisorVars, exchanges, activeExchange, now, feeds, isRunning, predictionTask,
                   executionTask, signalQueue, predRuns, execRuns, sigCount, pushed, removed, starts,
                   stockVars>>

\* the venue answers the market order closing the next position of the sweep
\* (TradingEngine.closePosition); on success the ledger closes the position, or
\* throws 'not found'; every failure, a rejected database.closePosition
\* included, is caught in closeAllPositions
SweepOrderResult ==
    /\ stopRun.pc = "sweep"
    /\ \E ok \in BOOLEAN :
         LET id == Head(stopRun.todo)
             rest == Tail(stopRun.todo)
             open == id \in OpenIds(positions)
         IN  /\ IF ok
                THEN SetBook(createOrder(Book, ExchangeKey(EngineExchange), "market", id))
                ELSE UNCHANGED <<orders, orderIds>>
             /\ IF ok /\ open
                THEN SetLedger(closePosition(Ledger, id, 0))
                ELSE UNCHANGED <<positions, balance, performanceHistory>>
             /\ stopRun' = [stopRun EXCEPT
                              !.pc = IF rest = <<>> THEN "returned" ELSE "sweep",
                              !.todo = rest,
                              !.orderFailed = stopRun.orderFailed \/ ~ok]
    /\ UNCHANGED <<lastOp, advisorVars, exchanges, activeExchange, now, feeds, isRunning, predictionTask,
                   executionTask, signalQueue, predRuns, execRuns, sigCount, pushed, removed, starts,
                   stockVars>>

\* ------------------------------------------------------------------------
\* StockAnalyzer and StockTradingEngine
\* ------------------------------------------------------------------------
watchlist == <<"AAPL", "MSFT">>

\* the scores the three analyses of analyzeStock come back with
StockScores ==
    {[fundamentalScore |-> 80, technicalScore |-> 80, sentimentScore |-> 80],
     [fundamentalScore |-> 50, technicalScore |-> 50, sentimentScore |-> 50],
     [fundamentalScore |-> 20, technicalScore |-> 20, sentimentScore |-> 20]}

\* buying power the account reports, in dollars
BuyingPowers == {500, 10000}

StockCurrentPrice == 155
StockVolatilityPct == 2

\* generateSignal: confidence in thousandths (overallScore / 100), prices in
\* hundredths of a dollar
generateSignal(symbol, scores, id, t) ==
    LET overall10 == scores.fundamentalScore * 4 + scores.technicalScore * 4
                       + scores.sentimentScore * 2
        action == IF overall10 > 700 THEN "BUY"
                  ELSE IF overall10 < 300 THEN "SELL" ELSE "HOLD"
    IN  [id |-> id, symbol |-> symbol, action |-> action, confidence |-> overall10,
         fundamentalScore |-> scores.fundamentalScore,
         technicalScore |-> scores.technicalScore,
         targetPrice |-> IF action = "BUY"
                         THEN StockCurrentPrice * (100 + StockVolatilityPct * 2)
                         ELSE IF action = "SELL"
                         THEN StockCurrentPrice * (100 - StockVolatilityPct * 2)
                         ELSE StockCurrentPrice * 100,
         stopLoss |-> IF action = "BUY"
                      THEN StockCurrentPrice * (100 - StockVolatilityPct)
                      ELSE IF action = "SELL"
                      THEN StockCurrentPrice * (100 + StockVolatilityPct)
                      ELSE StockCurrentPrice * 100,
         timestamp |-> t]

NoStockSignal ==
    [id |-> 0, symbol |-> "", action |-> "HOLD", confidence |-> 0, fundamentalScore |-> 0,
     technicalScore |-> 0, targetPrice |-> 0, stopLoss |-> 0, timestamp |-> 0]

\* StockTradingEngine.validateSignal on the answers of getPositions and getAccount
StockValidateSignal(signal, hasPosition, buyingPower) ==
    IF hasPosition /\ signal.action = "BUY" THEN FALSE
    ELSE IF signal.action = "BUY" /\ buyingPower < 1000 THEN FALSE
    ELSE IF signal.confidence < 650 THEN FALSE
    ELSE IF signal.fundamentalScore < 40 THEN FALSE
    ELSE IF signal.technicalScore < 40 THEN FALSE
    ELSE TRUE

Min(a, b) == IF a <= b THEN a ELSE b
Max(a, b) == IF a >= b THEN a ELSE b

\* StockTradingEngine.calculatePositionSize, in shares
StockCalculatePositionSize(buyingPower, signal) ==
    LET sharePrice == IF signal.targetPrice # 0 THEN signal.targetPrice ELSE 100 * 100
        shares == (buyingPower * 2 * signal.confidence) \div (10 * sharePrice)
    IN  Max(1, Min(shares, 100))

StockStaleMs == 300000

\* the staleness test of executeQueuedSignals (lines 169-170)
StockIsStale(signal, t) == t - signal.timestamp > StockStaleMs

StockDequeueSignal(queue) == [signal |-> Head(queue), rest |-> Tail(queue)]

IdleScan == [pc |-> "idle", idx |-> 0, signal |-> NoStockSignal]
IdleStockExec == [pc |-> "idle", signal |-> NoStockSignal, qty |-> 0]

\* the while loop of executeQueuedSignals from its head up to the next await
\* that waits for the venue: stale signals are shifted off and dropped
RECURSIVE stockExecuteLoop(_, _)
stockExecuteLoop(queue, log) ==
    IF queue = <<>>
    THEN [queue |-> queue, removed |-> log, run |-> IdleStockExec]
    ELSE
      LET d == StockDequeueSignal(queue)
          signal == d.signal
          log2 == Append(log, [id |-> signal.id, timestamp |-> signal.timestamp, at |-> now])
      IN  IF StockIsStale(signal, now) THEN stockExecuteLoop(d.rest, log2)
          ELSE [queue |-> d.rest, removed |-> log2,
                run |-> [pc |-> "quote", signal |-> signal, qty |-> 0]]

\* the executeQueuedSignals invocation in slot i goes round its loop
StockContinueExec(i) ==
    LET r == stockExecuteLoop(stockSignalQueue, stockRemoved)
    IN  /\ stockSignalQueue' = r.queue
        /\ stockRemoved' = r.removed
        /\ stockExecRuns' = [stockExecRuns EXCEPT ![i] = r.run]

\* the scan in flight goes on to the next symbol of the watchlist, and to
\* discoverNewStocks after the last
ScanNext ==
    IF scanRun.idx < NumPairs
    THEN [pc |-> "analyze", idx |-> scanRun.idx + 1, signal |-> NoStockSignal]
    ELSE [pc |-> "discover", idx |-> 0, signal |-> NoStockSignal]

\* StockTradingEngine.start() up to its wait for the market hours
StockStart ==
    /\ ~stockIsRunning
    /\ stockStarts < MaxStarts
    /\ starts = 0
    /\ stockStartRun = "idle"
    /\ stockStarts' = stockStarts + 1
    /\ stockIsRunning' = TRUE
    /\ stockStartRun' = "hours"
    /\ UNCHANGED <<ledgerVars, advisorVars, exchangeVars, now, feeds, engineVars, alpacaClient, marketOpenTask, scanTask, executeTask, scanRun, stockExecRuns,
                   stockSignalQueue, stockOrders, stockSigCount, stockPushed, stockRemoved>>

\* getMarketHours answers: with the market open both tasks are scheduled and
\* the initial scan begins (and returns at once when stop() came in between);
\* with the market closed scheduleMarketOpen schedules its task and start()
\* returns
StockMarketHours ==
    /\ stockStartRun = "hours"
    /\ stockStartRun' = "idle"
    /\ \E isOpen \in BOOLEAN :
         IF isOpen
         THEN /\ scanRun.pc = "idle"
              /\ scanTask' = "scheduled"
              /\ executeTask' = "scheduled"
              /\ scanRun' = IF stockIsRunning
                            THEN [pc |-> "analyze", idx |-> 1, signal |-> NoStockSignal]
                            ELSE scanRun
              /\ UNCHANGED marketOpenTask
         ELSE /\ marketOpenTask' = "scheduled"
              /\ UNCHANGED <<scanTask, executeTask, scanRun>>
    /\ UNCHANGED <<ledgerVars, advisorVars, exchangeVars, now, feeds, engineVars, alpacaClient, stockIsRunning, stockExecRuns, stockSignalQueue, stockOrders,
                   stockSigCount, stockPushed, stockRemoved, stockStarts>>

\* the task of scheduleMarketOpen fires at the market open: after stop() the
\* callback returns; otherwise it calls start(), which finds isRunning set
\* (start() set it before it asked for the market hours) and returns at its
\* first test.  No branch schedules a task or begins a scan.
MarketOpenFire ==
    /\ marketOpenTask = "scheduled"
    /\ marketOpenTask' = "fired"
    /\ IF ~stockIsRunning
       THEN UNCHANGED <<stockIsRunning, scanTask, executeTask, stockStartRun, scanRun>>
       ELSE IF stockIsRunning
            THEN UNCHANGED <<stockIsRunning, scanTask, executeTask, stockStartRun, scanRun>>
            ELSE /\ stockIsRunning' = TRUE
                 /\ stockStartRun' = "hours"
                 /\ UNCHANGED <<scanTask, executeTask, scanRun>>
    /\ UNCHANGED <<ledgerVars, advisorVars, exchangeVars, now, feeds, engineVars, alpacaClient,
                   stockExecRuns, stockSignalQueue, stockOrders, stockSigCount, stockPushed,
                   stockRemoved, stockStarts>>

\* the scan task fires: scanForOpportunities up to its first await
ScanTick ==
    /\ scanTask = "scheduled"
    /\ stockIsRunning
    /\ scanRun.pc = "idle"
    /\ scanRun' = [pc |-> "analyze", idx |-> 1, signal |-> NoStockSignal]
    /\ UNCHANGED <<ledgerVars, advisorVars, exchangeVars, now, feeds, engineVars, alpacaClient, marketOpenTask, stockIsRunning, scanTask, executeTask, stockStartRun,
                   stockExecRuns, stockSignalQueue, stockOrders, stockSigCount, stockPushed,
                   stockRemoved, stockStarts>>

\* analyzeStock resolves for the symbol of the scan: a signal above 0.7
\* confidence goes on to validateSignal
StockAnalysis ==
    /\ scanRun.pc = "analyze"
    /\ \E scores \in StockScores :
         LET signal == generateSignal(watchlist[scanRun.idx], scores, stockSigCount + 1, now)
         IN  IF signal.confidence > 700
             THEN /\ stockSigCount < MaxSignals
                  /\ stockSigCount' = stockSigCount + 1
                  /\ scanRun' = [scanRun EXCEPT !.pc = "validate", !.signal = signal]
             ELSE /\ scanRun' = ScanNext
                  /\ UNCHANGED stockSigCount
    /\ UNCHANGED <<ledgerVars, advisorVars, exchangeVars, now, feeds, engineVars, alpacaClient, marketOpenTask, stockIsRunning, scanTask, executeTask, stockStartRun,
                   stockExecRuns, stockSignalQueue, stockOrders, stockPushed, stockRemoved,
                   stockStarts>>

\* getPositions and getAccount answer for validateSignal; threw: a request
\* failed, or getAccount threw for want of a connected exchange, and the catch
\* of the loop body drops the signal
StockValidation ==
    /\ scanRun.pc = "validate"
    /\ \E threw \in BOOLEAN, hasPosition \in BOOLEAN, buyingPower \in BuyingPowers :
         LET accepted == ~threw /\ StockValidateSignal(scanRun.signal, hasPosition, buyingPower)
         IN  /\ ~alpacaClient => threw /\ ~hasPosition
             /\ stockSignalQueue' = IF accepted THEN Append(stockSignalQueue, scanRun.signal)
                                    ELSE stockSignalQueue
             /\ stockPushed' = IF accepted THEN Append(stockPushed, scanRun.signal.id)
                               ELSE stockPushed
    /\ scanRun' = ScanNext
    /\ UNCHANGED <<ledgerVars, advisorVars, exchangeVars, now, feeds, engineVars, alpacaClient, marketOpenTask, stockIsRunning, scanTask, executeTask, stockStartRun,
                   stockExecRuns, stockOrders, stockSigCount, stockRemoved, stockStarts>>

\* screenStocks of discoverNewStocks answers with symbols the watchlist already
\* holds, or throws: the scan ends
StockDiscovery ==
    /\ scanRun.pc = "discover"
    /\ scanRun' = IdleScan
    /\ UNCHANGED <<ledgerVars, advisorVars, exchangeVars, now, feeds, engineVars, alpacaClient, marketOpenTask, stockIsRunning, scanTask, executeTask, stockStartRun,
                   stockExecRuns, stockSignalQueue, stockOrders, stockSigCount, stockPushed,
                   stockRemoved, stockStarts>>

\* the execute task fires: executeQueuedSignals up to its first wait
StockExecuteTick ==
    /\ executeTask = "scheduled"
    /\ stockIsRunning
    /\ stockSignalQueue # <<>>
    /\ FreeSlots(stockExecRuns) # {}
    /\ StockContinueExec(NextSlot(stockExecRuns))
    /\ UNCHANGED <<ledgerVars, advisorVars, exchangeVars, now, feeds, engineVars, alpacaClient, marketOpenTask, stockIsRunning, scanTask, executeTask, stockStartRun,
                   scanRun, stockOrders, stockSigCount, stockPushed, stockStarts>>

\* getQuote and getAccount answer for the executeTrade of run i; a throw
\* leaves executeTrade and is caught in executeQueuedSignals
StockQuoteResult(i) ==
    /\ stockExecRuns[i].pc = "quote"
    /\ \E ok \in BOOLEAN, buyingPower \in BuyingPowers :
         IF ok /\ alpacaClient
         THEN /\ stockExecRuns' = [stockExecRuns EXCEPT
                    ![i].pc = "entry",
                    ![i].qty = StockCalculatePositionSize(buyingPower, stockExecRuns[i].signal)]
              /\ UNCHANGED <<stockSignalQueue, stockRemoved>>
         ELSE StockContinueExec(i)
    /\ UNCHANGED <<ledgerVars, advisorVars, exchangeVars, now, feeds, engineVars, alpacaClient, marketOpenTask, stockIsRunning, scanTask, executeTask, stockStartRun,
                   scanRun, stockOrders, stockSigCount, stockPushed, stockStarts>>

\* the venue answers the entry order of run i (executeTrade, lines 206-218)
StockEntryResult(i) ==
    /\ stockExecRuns[i].pc = "entry"
    /\ \E ok \in BOOLEAN :
         LET signal == stockExecRuns[i].signal
         IN  IF ok
             THEN /\ stockOrders' = Append(stockOrders,
                        [type |-> "limit", time_in_force |-> "day", ref |-> signal.id,
                         side |-> IF signal.action = "BUY" THEN "buy" ELSE "sell"])
                  /\ IF signal.action = "BUY"
                     THEN /\ stockExecRuns' = [stockExecRuns EXCEPT ![i].pc = "protect"]
                          /\ UNCHANGED <<stockSignalQueue, stockRemoved>>
                     ELSE StockContinueExec(i)
             ELSE /\ StockContinueExec(i)
                  /\ UNCHANGED stockOrders
    /\ UNCHANGED <<ledgerVars, advisorVars, exchangeVars, now, feeds, engineVars, alpacaClient, marketOpenTask, stockIsRunning, scanTask, executeTask, stockStartRun,
                   scanRun, stockSigCount, stockPushed, stockStarts>>

\* the venue answers the stop and the take-profit order of run i
\* (StockTradingEngine.setProtectionOrders; a rejected stop skips the limit)
StockProtectionResult(i) ==
    /\ stockExecRuns[i].pc = "protect"
    /\ \E placed \in {<<>>, <<"stop">>, <<"stop", "limit">>} :
         stockOrders' = stockOrders \o
            [k \in 1..Len(placed) |->
               [type |-> placed[k], time_in_force |-> "gtc",
                ref |-> stockExecRuns[i].signal.id, side |-> "sell"]]
    /\ StockContinueExec(i)
    /\ UNCHANGED <<ledgerVars, advisorVars, exchangeVars, now, feeds, engineVars, alpacaClient, marketOpenTask, stockIsRunning, scanTask, executeTask, stockStartRun,
                   scanRun, stockSigCount, stockPushed, stockStarts>>

\* StockTradingEngine.stop()
StockStop ==
    /\ stockIsRunning
    /\ stockIsRunning' = FALSE
    /\ scanTask' = IF scanTask # "null" THEN "stopped" ELSE scanTask
    /\ executeTask' = IF executeTask # "null" THEN "stopped" ELSE executeTask
    /\ UNCHANGED <<ledgerVars, advisorVars, exchangeVars, now, feeds, engineVars, alpacaClient, marketOpenTask, stockStartRun, scanRun, stockExecRuns, stockSignalQueue,
                   stockOrders, stockSigCount, stockPushed, stockRemoved, stockStarts>>

\* time passes
Tick ==
    /\ now < MaxTicks * TickMs
    /\ now' = now + TickMs
    /\ UNCHANGED <<ledgerVars, advisorVars, exchangeVars, feeds, engineVars, stockVars>>

\* ------------------------------------------------------------------------
\* Calls on the PortfolioManager (ledger model)
\* ------------------------------------------------------------------------
InitLedger ==
    /\ positions = <<>>
    /\ balance = initializeBalance
    /\ performanceHistory = <<>>
    /\ lastOp = [op |-> "none", id |-> 0, prices |-> NoPrices, threw |-> FALSE, emitted |-> 0]

\* the state after NeuralTrader.initialize() has built its components and
\* before either engine is started: credentials says whether the API keys of
\* the venues (BINANCE_API_KEY and BINANCE_SECRET, ALPACA_KEY_ID and
\* ALPACA_SECRET_KEY) are set, configMaxOpenPositions is config.maxOpenPositions
InitComponents(credentials, configMaxOpenPositions) ==
    /\ InitLedger
    /\ risk = loadRiskParameters(configMaxOpenPositions)
    /\ riskCall = NoRiskCall
    /\ strategyCall = NoStrategyCall
    /\ exchanges = initializeExchanges(credentials)
    /\ activeExchange = "paper"
    /\ orderIds = [e \in {"binance", "paper"} |-> 0]
    /\ orders = <<>>
    /\ now = 0
    /\ feeds = InitFeeds
    /\ isRunning = FALSE
    /\ predictionTask = "null"
    /\ executionTask = "null"
    /\ signalQueue = <<>>
    /\ predRuns = [i \in 1..MaxPredRuns |-> IdlePred]
    /\ execRuns = [i \in 1..MaxExecRuns |-> IdleExec]
    /\ stopRun = IdleStop
    /\ sigCount = 0
    /\ pushed = <<>>
    /\ removed = <<>>
    /\ starts = 0
    /\ alpacaClient = credentials
    /\ marketOpenTask = "null"
    /\ stockIsRunning = FALSE
    /\ scanTask = "null"
    /\ executeTask = "null"
    /\ stockStartRun = "idle"
    /\ scanRun = IdleScan
    /\ stockExecRuns = [i \in 1..MaxExecRuns |-> IdleStockExec]
    /\ stockSignalQueue = <<>>
    /\ stockOrders = <<>>
    /\ stockSigCount = 0
    /\ stockPushed = <<>>
    /\ stockRemoved = <<>>
    /\ stockStarts = 0

nonLedgerVars == <<advisorVars, exchangeVars, now, feeds, engineVars, stockVars>>

\* addPosition(position) with a position id the venue has not used before;
\* dbFail: database.savePosition rejects and addPosition rethrows.  emitted
\* counts the 'position-update' and 'position-closed' events of the call: the
\* emit follows the await of the database call, so a rejection skips it
AddPositionCall ==
    \E id \in 1..MaxIds, symbol \in Symbols, side \in Sides,
       entryPrice \in EntryPrices, quantity \in Quantities, dbFail \in BOOLEAN :
      \E levels \in ProtectionLevels(side, entryPrice) :
        /\ Len(positions) < MaxPositions
        /\ id \notin UsedIds
        /\ id = Cardinality(UsedIds) + 1
        /\ SetLedger(addPosition(Ledger,
              NewPosition(id, symbol, side, entryPrice, quantity, levels[1], levels[2])))
        /\ lastOp' = [op |-> "addPosition", id |-> id, prices |-> NoPrices, threw |-> dbFail,
                      emitted |-> IF dbFail THEN 0 ELSE 1]

\* updatePrices(prices); the first rejected database.closePosition ends the call,
\* so at most one failing id is drawn
UpdatePricesCall ==
    \E prices \in [Symbols -> {0} \cup Ticks],
       dbFail \in {{}} \cup {{i} : i \in OpenIds(positions)} :
      LET r == updatePrices(Ledger, prices, dbFail)
      IN  /\ SetLedger(r.ledger)
          /\ lastOp' = [op |-> "updatePrices", id |-> 0, prices |-> prices, threw |-> r.threw,
                        emitted |-> Len(positions) - Len(r.ledger.positions)
                                      - (IF r.threw THEN 1 ELSE 0)]

\* closePosition(positionId, exitPrice?); an id that is not open throws
\* before anything is changed (lines 70-73)
ClosePositionCall ==
    \E id \in 1..MaxIds, exitPrice \in {0} \cup Ticks, dbFail \in BOOLEAN :
      IF id \in OpenIds(positions)
      THEN /\ SetLedger(closePosition(Ledger, id, exitPrice))
           /\ lastOp' = [op |-> "closePosition", id |-> id, prices |-> NoPrices, threw |-> dbFail,
                         emitted |-> IF dbFail THEN 0 ELSE 1]
      ELSE /\ UNCHANGED <<positions, balance, performanceHistory>>
           /\ lastOp' = [op |-> "closePosition", id |-> id, prices |-> NoPrices, threw |-> TRUE,
                         emitted |-> 0]

NextLedger ==
    /\ AddPositionCall \/ UpdatePricesCall \/ ClosePositionCall
    /\ UNCHANGED nonLedgerVars

SpecLedger == InitComponents(FALSE, 0) /\ [][NextLedger]_vars

\* ------------------------------------------------------------------------
\* The PortfolioManager with its reporting calls
\* ------------------------------------------------------------------------
LedgerOp(op) == [op |-> op, id |-> 0, prices |-> NoPrices, threw |-> FALSE, emitted |-> 0]

GetPerformanceMetricsCall ==
    /\ lastOp' = LedgerOp("getPerformanceMetrics")
    /\ UNCHANGED <<positions, balance, performanceHistory>>

\* exportPortfolio: reads, changes nothing; the caller holds the returned data
ExportPortfolioCall ==
    /\ lastOp' = LedgerOp("exportPortfolio")
    /\ UNCHANGED <<positions, balance, performanceHistory>>

\* importPortfolio given the data the preceding exportPortfolio returned (every
\* other call on the ledger sets lastOp, so the ledger is as it was exported)
ImportPortfolioCall ==
    /\ lastOp.op = "exportPortfolio"
    /\ SetLedger(importPortfolio(exportPortfolio(Ledger, now)))
    /\ lastOp' = LedgerOp("importPortfolio")

\* the updates (Partial<Position>) given to updatePosition in the model
PositionUpdates == {[side |-> "SELL"], [quantity |-> 0], [stopLoss |-> 0, takeProfit |-> 0]}

\* updatePosition(positionId, updates); an id that is not open throws before
\* anything is changed (lines 57-59); dbFail: database.updatePosition rejects
UpdatePositionCall ==
    \E id \in 1..MaxIds, updates \in PositionUpdates, dbFail \in BOOLEAN :
      IF id \in OpenIds(positions)
      THEN /\ SetLedger(updatePosition(Ledger, id, updates))
           /\ lastOp' = [op |-> "updatePosition", id |-> id, prices |-> NoPrices, threw |-> dbFail,
                         emitted |-> IF dbFail THEN 0 ELSE 1]
      ELSE /\ UNCHANGED <<positions, balance, performanceHistory>>
           /\ lastOp' = [op |-> "updatePosition", id |-> id, prices |-> NoPrices, threw |-> TRUE,
                         emitted |-> 0]

NextPortfolio ==
    /\ \/ AddPositionCall
       \/ UpdatePricesCall
       \/ ClosePositionCall
       \/ GetPerformanceMetricsCall
       \/ ExportPortfolioCall
       \/ ImportPortfolioCall
    /\ UNCHANGED nonLedgerVars

SpecPortfolio == InitComponents(FALSE, 0) /\ [][NextPortfolio]_vars

\* ------------------------------------------------------------------------
\* The ledger with the three calls that write a position to the database
\* themselves (updatePrices, which writes through closePosition, is in
\* SpecLedger)
\* ------------------------------------------------------------------------
NextLedgerUpdates ==
    /\ AddPositionCall \/ UpdatePositionCall \/ ClosePositionCall
    /\ UNCHANGED nonLedgerVars

SpecLedgerUpdates == InitComponents(FALSE, 0) /\ [][NextLedgerUpdates]_vars

\* ------------------------------------------------------------------------
\* The ledger with a trade history near its limit: importPortfolio of data
\* whose recentTrades holds about HistoryLimit trades, then closes
\* ------------------------------------------------------------------------
ImportedLengths == {HistoryLimit - 1, HistoryLimit, HistoryLimit + 1}

\* the i-th trade of an imported history, oldest first; its id is none of the
\* ids of the imported positions
ImportedTrade(i) ==
    [positionId |-> MaxIds + i, symbol |-> "BTC/USDT", side |-> "BUY", entryPrice |-> 100,
     exitPrice |-> 100, quantity |-> Scale, pnl |-> 0]

\* importPortfolio(data) with data of the caller: the initial balances, two
\* open positions and n recent trades (lines 292-323: the three members
\* are cleared, then set from data; recentTrades is taken as it is)
ImportTradesCall ==
    \E n \in ImportedLengths, side1 \in Sides, side2 \in Sides :
        /\ SetLedger(importPortfolio(
              [timestamp |-> now, balance |-> initializeBalance,
               positions |-> <<ExportedPosition(NewPosition(1, "BTC/USDT", side1, 100, Scale, 0, 0)),
                               ExportedPosition(NewPosition(2, "ETH/USDT", side2, 100, Scale, 0, 0))>>,
               recentTrades |-> [i \in 1..n |-> ImportedTrade(i)]]))
        /\ lastOp' = LedgerOp("importPortfolio")

NextHistory ==
    /\ ImportTradesCall \/ ClosePositionCall
    /\ UNCHANGED nonLedgerVars

SpecHistory == InitComponents(FALSE, 0) /\ [][NextHistory]_vars

\* ------------------------------------------------------------------------
\* The DataFeedManager with the exchange it reads
\* ------------------------------------------------------------------------
\* setActiveExchange(name) for an exchange that is registered
SetActiveExchangeCall ==
    \E name \in exchanges :
        /\ name # activeExchange
        /\ activeExchange' = name
        /\ UNCHANGED feeds

StartFeedCall ==
    \E symbol \in Symbols :
        /\ feeds.starts[symbol] < MaxFeedStarts
        /\ feeds' = startFeed(feeds, symbol, activeExchange)
        /\ UNCHANGED activeExchange

\* an updateMarketData call in flight ends: the cache entry is set when the
\* venue answered, and nothing is changed when it failed (lines 293-332)
UpdateMarketDataResult ==
    \E symbol \in Symbols, ok \in BOOLEAN :
        /\ feeds.updating[symbol] > 0
        /\ feeds' = [feeds EXCEPT !.updating[symbol] = feeds.updating[symbol] - 1,
                                  !.cached[symbol] = ok \/ feeds.cached[symbol]]
        /\ UNCHANGED activeExchange

\* a running update task fires (one updateMarketData in flight per symbol)
UpdateTaskTick ==
    \E symbol \in Symbols :
        /\ feeds.tasks[symbol] > 0
        /\ feeds.updating[symbol] = 0
        /\ feeds' = [feeds EXCEPT !.updating[symbol] = 1]
        /\ UNCHANGED activeExchange

\* the venue drops the stored socket: its 'close' handler sets the reconnect timer
SocketDrop ==
    \E symbol \in Symbols :
        /\ feeds.websocket[symbol] = "open"
        /\ feeds' = [feeds EXCEPT !.openSockets[symbol] = feeds.openSockets[symbol] - 1,
                                  !.websocket[symbol] = "closed",
                                  !.reconnectTimers[symbol] = feeds.reconnectTimers[symbol] + 1]
        /\ UNCHANGED activeExchange

\* a reconnect timer fires: initWebSocket(symbol)
ReconnectFire ==
    \E symbol \in Symbols :
        /\ feeds.reconnectTimers[symbol] > 0
        /\ feeds' = initWebSocket(
                       [feeds EXCEPT !.reconnectTimers[symbol] = feeds.reconnectTimers[symbol] - 1],
                       symbol, activeExchange)
        /\ UNCHANGED activeExchange

StopFeedCall ==
    \E symbol \in Symbols :
        /\ feeds' = stopFeed(feeds, symbol)
        /\ UNCHANGED activeExchange

StopAllFeedsCall ==
    /\ feeds' = stopAllFeeds(feeds)
    /\ UNCHANGED activeExchange

NextFeeds ==
    /\ \/ SetActiveExchangeCall
       \/ StartFeedCall
       \/ UpdateMarketDataResult
       \/ UpdateTaskTick
       \/ SocketDrop
       \/ ReconnectFire
       \/ StopFeedCall
       \/ StopAllFeedsCall
    /\ UNCHANGED <<ledgerVars, advisorVars, exchanges, orderIds, orders, now, engineVars, stockVars>>

SpecFeeds == InitComponents(TRUE, 0) /\ [][NextFeeds]_vars

\* ------------------------------------------------------------------------
\* The trading engine with its exchange, risk manager and ledger
\* ------------------------------------------------------------------------
Init == \E credentials \in BOOLEAN : InitComponents(credentials, 0)

\* the two engines share no state (src/src/index.ts builds them side by side),
\* so a behaviour drives one of them: Start and StockStart exclude each other
Next ==
    \/ Start
    \/ PredictionTick
    \/ \E i \in 1..MaxPredRuns : PredictionData(i)
    \/ ExecutionTick
    \/ \E i \in 1..MaxExecRuns : EntryOrderResult(i)
    \/ \E i \in 1..MaxExecRuns : ProtectionResult(i)
    \/ \E i \in 1..MaxExecRuns : SavePositionResult(i)
    \/ Stop
    \/ SweepOrderResult
    \/ StockStart
    \/ StockMarketHours
    \/ MarketOpenFire
    \/ ScanTick
    \/ StockAnalysis
    \/ StockValidation
    \/ StockDiscovery
    \/ StockExecuteTick
    \/ \E i \in 1..MaxExecRuns : StockQuoteResult(i)
    \/ \E i \in 1..MaxExecRuns : StockEntryResult(i)
    \/ \E i \in 1..MaxExecRuns : StockProtectionResult(i)
    \/ StockStop
    \/ Tick

Spec == Init /\ [][Next]_vars

\* ------------------------------------------------------------------------
\* The crypto pipeline with every invocation run to its end before the next
\* callback, a confident predictor and a venue that accepts every order
\* ------------------------------------------------------------------------
PipelineForecasts == {f \in Forecasts : f.confidence = 80}

\* the signals a whole runPredictionCycle invocation generates from the
\* forecasts f (one for each trading pair), numbered from sigCount + 1
cycleSignals(f) ==
    [k \in 1..NumPairs |->
       analyzeSignal(tradingPairs[k], f[k], CHOOSE m \in MarketSnapshots : TRUE,
                     sigCount + k, now)]

\* the loop of runPredictionCycle: the signals the risk gate accepts are pushed
RunPredictionCycle(f) ==
    LET accepted == SelectSeq(cycleSignals(f),
                              LAMBDA s : s # NoSignal /\ validateSignal(risk, s))
    IN  /\ signalQueue' = signalQueue \o accepted
        /\ pushed' = pushed \o [k \in 1..Len(accepted) |-> accepted[k].id]
        /\ sigCount' = sigCount + NumPairs

\* start() with its initial prediction cycle
PipelineStart ==
    /\ ~isRunning
    /\ starts < MaxStarts
    /\ stockStarts = 0
    /\ starts' = starts + 1
    /\ isRunning' = TRUE
    /\ predictionTask' = "scheduled"
    /\ executionTask' = "scheduled"
    /\ \E f \in [1..NumPairs -> PipelineForecasts] : RunPredictionCycle(f)
    /\ UNCHANGED <<ledgerVars, advisorVars, exchangeVars, now, feeds, predRuns, execRuns, stopRun, removed,
                   stockVars>>

\* the prediction timer fires
PipelineCycle ==
    /\ predictionTask = "scheduled"
    /\ isRunning
    /\ sigCount + NumPairs <= MaxPipelineSignals
    /\ \E f \in [1..NumPairs -> PipelineForecasts] : RunPredictionCycle(f)
    /\ UNCHANGED <<ledgerVars, advisorVars, exchangeVars, now, feeds, isRunning, predictionTask,
                   executionTask, predRuns, execRuns, stopRun, removed, starts, stockVars>>

\* the loop of executeSignals over the queue: a signal that is fresh, sized
\* above 0 and has its exchange gets its entry order and its two protective
\* orders and is registered as a position under the id of the entry order
RECURSIVE drainQueue(_, _, _, _)
drainQueue(queue, log, book, L) ==
    IF queue = <<>>
    THEN [removed |-> log, book |-> book, ledger |-> L]
    ELSE
      LET d == DequeueSignal(queue)
          signal == d.signal
          log2 == Append(log, [id |-> signal.id, timestamp |-> signal.timestamp, at |-> now])
          positionSize == calculatePositionSize(risk, signal)
          ex == ExchangeKey(EngineExchange)
          b1 == createOrder(book, ex, "limit", signal.id)
          b2 == createOrder(b1, ex, "stop_loss", signal.id)
          b3 == createOrder(b2, ex, "take_profit", signal.id)
      IN  IF IsStale(signal, now) \/ positionSize = 0 \/ ~HasExchange(EngineExchange)
          THEN drainQueue(d.rest, log2, book, L)
          ELSE drainQueue(d.rest, log2, b3,
                 addPosition(L, NewPosition(b1.orderIds[ex], signal.symbol, signal.action,
                                            signal.price, positionSize,
                                            signal.stopLoss, signal.takeProfit)))

\* the execution timer fires
PipelineExecute ==
    /\ executionTask = "scheduled"
    /\ isRunning
    /\ signalQueue # <<>>
    /\ LET r == drainQueue(signalQueue, removed, Book, Ledger)
       IN  /\ signalQueue' = <<>>
           /\ removed' = r.removed
           /\ SetBook(r.book)
           /\ SetLedger(r.ledger)
    /\ UNCHANGED <<lastOp, advisorVars, exchanges, activeExchange, now, feeds, isRunning, predictionTask,
                   executionTask, predRuns, execRuns, stopRun, sigCount, pushed, starts,
                   stockVars>>

NextPipeline ==
    \/ PipelineStart
    \/ PipelineCycle
    \/ PipelineExecute

SpecPipeline == InitComponents(TRUE, 0) /\ [][NextPipeline]_vars

\* adjustRiskParameters without the cap of 15 on maxOpenPositions
adjustRiskParameters_NoCap(r, metrics) ==
    IF metrics.currentDrawdown * 2 > r.maxDrawdown
    THEN LET g == Gcd(r.riskPerTrade, r.riskPerTradeDen * 2)
         IN  [r EXCEPT !.riskPerTrade = r.riskPerTrade \div g,
                       !.riskPerTradeDen = (r.riskPerTradeDen * 2) \div g,
                       !.maxOpenPositions = Max(3, r.maxOpenPositions \div 2)]
    ELSE IF metrics.winRate > 60 /\ metrics.profitFactor > 200
    THEN LET n == r.riskPerTrade * 11
             d == r.riskPerTradeDen * 10
             g == Gcd(n, d)
             capped == n > 300 * d
         IN  [r EXCEPT !.riskPerTrade = IF capped THEN 300 ELSE n \div g,
                       !.riskPerTradeDen = IF capped THEN 1 ELSE d \div g,
                       !.maxOpenPositions = r.maxOpenPositions + 1]
    ELSE r

\* adjustRiskParameters(metrics): currentDrawdown in basis points, winRate in
\* percent, profitFactor in hundredths.  riskPerTrade * 0.5 and
\* Math.min(0.03, riskPerTrade * 1.1) are kept as exact quotients in lowest terms
adjustRiskParameters(r, metrics) ==
    IF metrics.currentDrawdown * 2 > r.maxDrawdown
    THEN LET g == Gcd(r.riskPerTrade, r.riskPerTradeDen * 2)
         IN  [r EXCEPT !.riskPerTrade = r.riskPerTrade \div g,
                       !.riskPerTradeDen = (r.riskPerTradeDen * 2) \div g,
                       !.maxOpenPositions = Max(3, r.maxOpenPositions \div 2)]
    ELSE IF metrics.winRate > 60 /\ metrics.profitFactor > 200
    THEN LET n == r.riskPerTrade * 11
             d == r.riskPerTradeDen * 10
             g == Gcd(n, d)
             capped == n > 300 * d
         IN  [r EXCEPT !.riskPerTrade = IF capped THEN 300 ELSE n \div g,
                       !.riskPerTradeDen = IF capped THEN 1 ELSE d \div g,
                       !.maxOpenPositions = Min(15, r.maxOpenPositions + 1)]
    ELSE r

\* ------------------------------------------------------------------------
\* The RiskManager called on its own: validateSignal, calculatePositionSize
\* and updateDrawdown are public and take any Signal / balance
\* ------------------------------------------------------------------------
\* BUY signals at price 100: targets at and above the price, stops below and at
\* the price, confidences from 0 to 1, volatilities of every tier (0: missing)
RiskSignals ==
    {[id |-> 1, symbol |-> "BTC/USDT", action |-> "BUY", price |-> 100,
      targetPrice |-> t, stopLoss |-> sl, takeProfit |-> 105,
      confidence |-> c, volatility |-> v, timestamp |-> 0] :
        t \in {100, 105}, sl \in {98, 100},
        c \in {0, 65, 80, 100}, v \in {0, 10, 15, 25, 35, 60}}

\* validateSignal(signal); threw: something inside the try block throws, and
\* the catch logs the error and returns false (lines 71-74)
ValidateSignalCall ==
    \E signal \in RiskSignals, threw \in BOOLEAN :
        /\ riskCall' = [NoRiskCall EXCEPT
                          !.op = "validateSignal", !.signal = signal,
                          !.valid = IF threw THEN FALSE ELSE validateSignal(risk, signal),
                          !.threw = threw,
                          !.warning = IF threw THEN "" ELSE validateSignalWarning(risk, signal),
                          !.seen = riskCall.seen]
        /\ UNCHANGED <<ledgerVars, risk, strategyCall, exchangeVars, now, feeds, engineVars, stockVars>>

CalculatePositionSizeCall ==
    \E signal \in RiskSignals :
        /\ riskCall' = [NoRiskCall EXCEPT !.op = "calculatePositionSize", !.signal = signal,
                                          !.size = calculatePositionSize(risk, signal),
                                          !.seen = riskCall.seen]
        /\ UNCHANGED <<ledgerVars, risk, strategyCall, exchangeVars, now, feeds, engineVars, stockVars>>

UpdateDrawdownCall ==
    \E currentBalance \in {0, 8000, 10000, 12000} :
        /\ risk' = updateDrawdown(risk, currentBalance)
        /\ riskCall' = [NoRiskCall EXCEPT !.op = "updateDrawdown", !.balance = currentBalance,
                                          !.seen = riskCall.seen \cup {currentBalance}]
        /\ UNCHANGED <<ledgerVars, strategyCall, exchangeVars, now, feeds, engineVars, stockVars>>

NextRisk ==
    \/ ValidateSignalCall
    \/ CalculatePositionSizeCall
    \/ UpdateDrawdownCall

\* config.maxOpenPositions: not set, or 3
SpecRisk ==
    /\ \E configMaxOpenPositions \in {0, 3} : InitComponents(FALSE, configMaxOpenPositions)
    /\ [][NextRisk]_vars

\* ------------------------------------------------------------------------
\* The RiskManager adjusting its parameters
\* ------------------------------------------------------------------------
MaxRiskDen == 400      \* adjustRiskParameters is called while riskPerTradeDen is at most this

\* adjustRiskParameters(metrics) with the metrics a performance snapshot gives
AdjustRiskParametersCall ==
    \E currentDrawdown \in {0, 1000, 1500}, winRate \in {60, 70}, profitFactor \in {200, 300} :
        LET metrics == [currentDrawdown |-> currentDrawdown, winRate |-> winRate,
                        profitFactor |-> profitFactor]
        IN  /\ risk.riskPerTradeDen <= MaxRiskDen
            /\ risk' = adjustRiskParameters(risk, metrics)
            /\ riskCall' = [NoRiskCall EXCEPT !.op = "adjustRiskParameters",
                                              !.metrics = metrics]
            /\ UNCHANGED <<ledgerVars, strategyCall, exchangeVars, now, feeds, engineVars, stockVars>>

NextAdjust == AdjustRiskParametersCall

SpecAdjust == InitComponents(FALSE, 0) /\ [][NextAdjust]_vars

\* ------------------------------------------------------------------------
\* The signal producers called on their own, for a positive current price
\* ------------------------------------------------------------------------
SignalPrices == {100, 200, 1000}

BollingerInputs ==
    {calculateBollingerBands(enough, sma, width) :
        enough \in BOOLEAN, sma \in {50, 100, 150, 400}, width \in {0, 10, 60}}

StrategyMarketData ==
    {[symbol |-> "BTC/USDT", price |-> price, rsi |-> rsi, hasMacd |-> hasMacd,
      histogram |-> histogram, hasBollinger |-> FALSE,
      bollinger |-> calculateBollingerBands(FALSE, 0, 0)] :
        price \in SignalPrices, rsi \in {0, 20, 50, 80}, hasMacd \in BOOLEAN,
        histogram \in {0 - 1, 0, 1}}

BollingerMarketData ==
    {[symbol |-> "BTC/USDT", price |-> price, rsi |-> 0, hasMacd |-> FALSE,
      histogram |-> 0, hasBollinger |-> hasBollinger, bollinger |-> bollinger] :
        price \in SignalPrices, hasBollinger \in BOOLEAN, bollinger \in BollingerInputs}

AnalyzeSignalCall ==
    \E pair \in Symbols, price \in SignalPrices,
       predictedPrice \in {5, 99, 100, 101, 150, 300},
       confidence \in {60, 65, 80}, direction \in {"up", "down", "neutral"} :
        LET prediction == [confidence |-> confidence, direction |-> direction,
                           predictedPrice |-> predictedPrice]
        IN  strategyCall' =
              [op |-> "analyzeSignal", price |-> price, prediction |-> prediction,
               signal |-> analyzeSignal(pair, prediction,
                                        [price |-> price, volatility |-> 5], 1, now)]

MomentumAnalyzeCall ==
    \E marketData \in StrategyMarketData :
        strategyCall' = [op |-> "momentum", price |-> marketData.price,
                         prediction |-> NoPrediction,
                         signal |-> MomentumAnalyze(marketData, 1, now)]

MeanReversionAnalyzeCall ==
    \E marketData \in BollingerMarketData :
        strategyCall' = [op |-> "meanReversion", price |-> marketData.price,
                         prediction |-> NoPrediction,
                         signal |-> MeanReversionAnalyze(marketData, 1, now)]

NextSignals ==
    /\ \/ AnalyzeSignalCall
       \/ MomentumAnalyzeCall
       \/ MeanReversionAnalyzeCall
    /\ UNCHANGED <<ledgerVars, risk, riskCall, exchangeVars, now, feeds, engineVars, stockVars>>

SpecSignals == InitComponents(FALSE, 0) /\ [][NextSignals]_vars

\* ------------------------------------------------------------------------
\* Properties of the ledger (checked under SpecLedger)
\* ------------------------------------------------------------------------

\* the exit condition as the specification states it, mirrored for SELL
DirectionalExit(p, price) ==
    IF p.side = "BUY"
    THEN \/ p.stopLoss # 0 /\ price <= p.stopLoss
         \/ p.takeProfit # 0 /\ price >= p.takeProfit
    ELSE \/ p.stopLoss # 0 /\ price >= p.stopLoss
         \/ p.takeProfit # 0 /\ price <= p.takeProfit

TradesOf(history, id) == {j \in 1..Len(history) : history[j].positionId = id}

\* an updatePrices call that ran to its end
UpdatePricesReturned == lastOp'.op = "updatePrices" /\ ~lastOp'.threw

\* C2: an updatePrices call closes an open position that has a new price exactly
\* when the directional exit condition holds for its side (BUY: price <= stopLoss
\* or price >= takeProfit; SELL: price >= stopLoss or price <= takeProfit).
C2_DirectionalExitOnly ==
    [][UpdatePricesReturned =>
         \A i \in 1..Len(positions) :
           LET p == positions[i]
               price == lastOp'.prices[p.symbol]
           IN  price # 0 =>
                 ((p.id \notin OpenIds(positions')) <=> DirectionalExit(p, price))]_vars

RECURSIVE OpenEffect(_, _)
OpenEffect(ps, asset) ==
    IF ps = <<>> THEN 0
    ELSE LET p == ps[1]
             q == IF SplitQuote(p.symbol) = asset
                  THEN (IF p.side = "BUY" THEN 0 - p.entryPrice * p.quantity
                                          ELSE p.entryPrice * p.quantity)
                  ELSE 0
             b == IF SplitBase(p.symbol) = asset
                  THEN (IF p.side = "BUY" THEN p.quantity ELSE 0 - p.quantity)
                  ELSE 0
         IN  q + b + OpenEffect(Tail(ps), asset)

RemovedStale(log) ==
    {log[k].id : k \in {j \in 1..Len(log) : log[j].at - log[j].timestamp > StaleMs}}

\* the entry orders the crypto venue accepted for signal id
EntryOrders(id) ==
    {k \in 1..Len(orders) : orders[k].type = "limit" /\ orders[k].ref = id}

\* the entry orders the stock venue accepted for signal id
StockEntryOrders(id) ==
    {k \in 1..Len(stockOrders) :
       stockOrders[k].time_in_force = "day" /\ stockOrders[k].ref = id}

\* ids of the positions the ledger holds or has closed
RegisteredIds ==
    OpenIds(positions)
      \cup {performanceHistory[j].positionId : j \in 1..Len(performanceHistory)}

\* C1: a signal older than 300000 ms when executeSignals or
\* executeQueuedSignals shifts it off the queue is discarded: no entry or
\* protective order is placed for it, no invocation goes on working on it, and
\* every position the ledger registers belongs to the entry order of a signal
\* that was not stale.
C1_StaleSignalDiscarded ==
    /\ \A k \in 1..Len(orders) :
         orders[k].type # "market" => orders[k].ref \notin RemovedStale(removed)
    /\ \A i \in 1..MaxExecRuns :
         execRuns[i].pc # "idle" => execRuns[i].signal.id \notin RemovedStale(removed)
    /\ \A id \in RegisteredIds :
         \E k \in 1..Len(orders) :
           /\ orders[k].type = "limit"
           /\ orders[k].id = id
           /\ orders[k].ref \notin RemovedStale(removed)
    /\ \A k \in 1..Len(stockOrders) : stockOrders[k].ref \notin RemovedStale(stockRemoved)
    /\ \A i \in 1..MaxExecRuns :
         stockExecRuns[i].pc # "idle" =>
           stockExecRuns[i].signal.id \notin RemovedStale(stockRemoved)

\* the stock engine has shifted a stale signal off its queue and placed an
\* order for another one
C1_Witness ==
    /\ RemovedStale(stockRemoved) # {}
    /\ stockOrders # <<>>

\* C4: while the active exchange is the paper exchange, every order the
\* TradingEngine has placed (entry, stop-loss, take-profit, shutdown sweep) is
\* on the books of the paper exchange.
C4_OrdersOnPaperExchange ==
    activeExchange = "paper" =>
      \A k \in 1..Len(orders) : orders[k].exchange = "paper"

\* C5: in both engines the signals shifted off the queue are the first of the
\* signals pushed, in push order, the queue holds the rest in push order (so a
\* signal is removed at most once, first in first out), and a signal has at
\* most one entry order at the venue.
C5_FifoAtMostOnce ==
    /\ Len(removed) + Len(signalQueue) = Len(pushed)
    /\ \A k \in 1..Len(removed) : removed[k].id = pushed[k]
    /\ \A k \in 1..Len(signalQueue) : signalQueue[k].id = pushed[Len(removed) + k]
    /\ \A id \in 1..sigCount : Cardinality(EntryOrders(id)) <= 1
    /\ Len(stockRemoved) + Len(stockSignalQueue) = Len(stockPushed)
    /\ \A k \in 1..Len(stockRemoved) : stockRemoved[k].id = stockPushed[k]
    /\ \A k \in 1..Len(stockSignalQueue) :
         stockSignalQueue[k].id = stockPushed[Len(stockRemoved) + k]
    /\ \A id \in 1..stockSigCount : Cardinality(StockEntryOrders(id)) <= 1

\* two executeSignals invocations are in flight, each working on a signal of
\* its own, and the venue has accepted the entry order of one of them
C5_Witness ==
    /\ \A i \in 1..MaxExecRuns : execRuns[i].pc # "idle"
    /\ Len(removed) = MaxSignals
    /\ \E id \in 1..sigCount : EntryOrders(id) # {}

\* C6: while isRunning is false no signal is appended to the signal queue (and
\* no 'signal' event, which is emitted with every push, goes out).
C6_NoSignalAfterStop ==
    [][~isRunning => pushed' = pushed]_vars

\* C7: when stop() returns and every close order of its sweep succeeded, the
\* ledger holds no open position.
C7_StopLeavesNoPosition ==
    [][(/\ stopRun.pc # "returned"
        /\ stopRun'.pc = "returned"
        /\ ~stopRun'.orderFailed
        /\ ~stopRun'.restarted) => positions' = <<>>]_vars

\* ------------------------------------------------------------------------
\* Properties of the pipeline (checked under SpecPipeline)
\* ------------------------------------------------------------------------

\* C10: no step opens a position while the ledger holds maxOpenPositions or
\* more open positions.
C10_OpenPositionsLimit ==
    [][Len(positions') > Len(positions) => Len(positions) < risk.maxOpenPositions]_vars

\* ------------------------------------------------------------------------
\* Properties of the risk gate in the engine (checked under Spec)
\* ------------------------------------------------------------------------

\* C11: the correlation gate decides on the open positions of the ledger: a
\* signal is accepted into the queue only if its largest correlation with the
\* instruments of the open ledger positions is at most 0.8, that is, if no open
\* position shares its base asset.
C11_CorrelationGateOnLedger ==
    [][Len(pushed') > Len(pushed) =>
         /\ maxCorrelation(signalQueue'[Len(signalQueue')].symbol, positions) <= 80
         /\ \A i \in 1..Len(positions) :
              SplitBase(positions[i].symbol) #
                SplitBase(signalQueue'[Len(signalQueue')].symbol)]_vars

\* C19: the crypto engine accepts no BUY signal into its queue for an
\* instrument that has an open position in the ledger, and the ledger never
\* holds two open BUY positions on the same instrument.
C19_NoSecondBuyOnInstrument ==
    [][/\ (Len(pushed') > Len(pushed) /\ signalQueue'[Len(signalQueue')].action = "BUY")
           => \A i \in 1..Len(positions) :
                 positions[i].symbol # signalQueue'[Len(signalQueue')].symbol
       /\ \A i, j \in 1..Len(positions') :
             (i # j /\ positions'[i].side = "BUY" /\ positions'[j].side = "BUY")
                => positions'[i].symbol # positions'[j].symbol]_vars

\* C20: once the task scheduled by a start() with the market closed has fired
\* and stop() has not been called, the scan task and the execute task are
\* scheduled.
C20_MarketOpenActivatesCycles ==
    (marketOpenTask = "fired" /\ stockIsRunning) =>
        (scanTask = "scheduled" /\ executeTask = "scheduled")

\* ------------------------------------------------------------------------
\* Properties of the RiskManager (checked under SpecRisk)
\* ------------------------------------------------------------------------

IsScenarioCall ==
    /\ riskCall.op = "calculatePositionSize"
    /\ getAccountBalance = 10000
    /\ risk.riskPerTrade = 200
    /\ riskCall.signal.price = 100
    /\ riskCall.signal.stopLoss = 98
    /\ riskCall.signal.targetPrice = 105
    /\ riskCall.signal.confidence = 80

\* units * volatility multiplier, 0 below the minimum of 10, in hundredths
ScenarioSize(units) ==
    LET tenths == units * getVolatilityMultiplier(riskCall.signal)
    IN  IF tenths < MinimumSize * 10 THEN 0 ELSE tenths * (Scale \div 10)

\* C13 as stated: the scenario's Kelly multiplier is 0.25, so the result is
\* 25 units times the volatility multiplier (25.00 at volatility <= 0.1).
C13_ScenarioGives25 == IsScenarioCall => riskCall.size = ScenarioSize(25)

\* C13, amended: in the scenario the raw Kelly 0.72 times the safety factor
\* 0.25 is 0.18, below the cap, so the result is 18 units times the volatility
\* multiplier (18.00 at volatility <= 0.1), 0 when that is below 10.
C13_ScenarioGives18 == IsScenarioCall => riskCall.size = ScenarioSize(18)

C13_Witness ==
    /\ IsScenarioCall
    /\ riskCall.signal.volatility <= 10
    /\ riskCall.size = 18 * Scale

\* the tiers of metadata.volatility (a missing volatility counts as 0.1)
VolatilityTier(signal) ==
    IF signal.volatility > 30 THEN 4
    ELSE IF signal.volatility > 20 THEN 3
    ELSE IF signal.volatility > 10 THEN 2
    ELSE 1

SameButVolatility(a, b) == [a EXCEPT !.volatility = 0] = [b EXCEPT !.volatility = 0]

\* a > b between results of calculatePositionSize; false when one is NaN
LargerSize(a, b) == a # NaN /\ b # NaN /\ a > b

\* C14: when calculatePositionSize is called for two signals that differ only
\* in volatility, the call with the higher volatility tier does not return a
\* larger size than the call with the lower tier.
C14_SizeNonIncreasingInVolatility ==
    [][(/\ riskCall.op = "calculatePositionSize"
        /\ riskCall'.op = "calculatePositionSize"
        /\ risk' = risk
        /\ SameButVolatility(riskCall.signal, riskCall'.signal))
       => /\ VolatilityTier(riskCall'.signal) > VolatilityTier(riskCall.signal)
               => ~LargerSize(riskCall'.size, riskCall.size)
          /\ VolatilityTier(riskCall'.signal) < VolatilityTier(riskCall.signal)
               => ~LargerSize(riskCall.size, riskCall'.size)]_vars

\* a call for a signal of the third tier that returned a size above 0 and
\* below the size of the same signal in the first tier
C14_Witness ==
    /\ riskCall.op = "calculatePositionSize"
    /\ VolatilityTier(riskCall.signal) = 3
    /\ riskCall.size > 0
    /\ riskCall.size <
         calculatePositionSize(risk, [riskCall.signal EXCEPT !.volatility = 10])

\* the largest balance given to updateDrawdown so far
LargestSeen == CHOOSE b \in riskCall.seen : \A c \in riskCall.seen : c <= b

\* C16: once updateDrawdown has been called, peakBalance is the largest
\* balance seen so far and currentDrawdown is a number >= 0.
C16_DrawdownWellDefined ==
    riskCall.seen # {} =>
        /\ risk.peakBalance = LargestSeen
        /\ risk.currentDrawdown.den > 0
        /\ risk.currentDrawdown.num >= 0

\* ------------------------------------------------------------------------
\* Properties of the reporting calls (checked under SpecPortfolio)
\* ------------------------------------------------------------------------

\* C15: importPortfolio of the data exportPortfolio has just returned leaves
\* the ledger as it was: same balances, same open positions with all their
\* fields, same trade history.
C15_ExportImportRoundTrip ==
    [][lastOp'.op = "importPortfolio" =>
         /\ balance' = balance
         /\ positions' = positions
         /\ performanceHistory' = performanceHistory]_vars

\* the metrics the claim names
NamedMetrics == {"winRate", "profitFactor", "totalPnL", "sharpeRatio", "maxDrawdown"}

\* C17: getPerformanceMetrics on an empty trade history returns an object in
\* which every named metric is present and is 0.
C17_EmptyHistoryAllZero ==
    (lastOp.op = "getPerformanceMetrics" /\ performanceHistory = <<>>) =>
        \A k \in NamedMetrics :
            /\ k \in DOMAIN getPerformanceMetrics(performanceHistory)
            /\ getPerformanceMetrics(performanceHistory)[k] = 0

\* ------------------------------------------------------------------------
\* Properties of the signal producers (checked under SpecSignals)
\* ------------------------------------------------------------------------

\* C18: every signal a producer returns for a positive price has
\* stopLoss < price < takeProfit when it is a BUY and
\* takeProfit < price < stopLoss when it is a SELL.
C18_ProtectionBracketsPrice ==
    strategyCall.signal # NoSignal =>
        LET s == strategyCall.signal
        IN  /\ s.price = strategyCall.price
            /\ s.action \in {"BUY", "SELL"}
            /\ s.action = "BUY" => s.stopLoss < s.price /\ s.price < s.takeProfit
            /\ s.action = "SELL" => s.takeProfit < s.price /\ s.price < s.stopLoss

\* the mean-reversion strategy has bought below the lower band
C18_Witness ==
    /\ strategyCall.op = "meanReversion"
    /\ strategyCall.signal # NoSignal
    /\ strategyCall.signal.action = "BUY"
    /\ strategyCall.signal.stopLoss < strategyCall.signal.price
    /\ strategyCall.signal.price < strategyCall.signal.takeProfit

\* ------------------------------------------------------------------------
\* C21: after any sequence of addPosition, updatePosition, updatePrices and
\* closePosition every position in the ledger has a quantity above 0, and a
\* position that stays open keeps the side it was added with.
\* ------------------------------------------------------------------------
C21_QuantityPositiveSideFixed ==
    [][/\ \A k \in 1..Len(positions') : positions'[k].quantity > 0
       /\ \A id \in OpenIds(positions) \cap OpenIds(positions') :
            GetPosition(positions', id).side = GetPosition(positions, id).side]_vars

\* ------------------------------------------------------------------------
\* C29: a persistence failure during addPosition, updatePosition or
\* closePosition neither rolls back nor blocks the call: the in-memory
\* mutation is applied and the call still completes, with its position-update
\* or position-closed event emitted.
\* (a call on an id that is not open changes nothing and is left aside)
\* ------------------------------------------------------------------------
C29_PersistenceFailureDoesNotBlock ==
    [][(/\ lastOp'.op \in {"addPosition", "updatePosition", "closePosition"}
        /\ positions' # positions)
       => (~lastOp'.threw /\ lastOp'.emitted = 1)]_vars

\* ------------------------------------------------------------------------
\* C30: a failure closing one position during updatePrices does not keep the
\* other open positions that have a new price in the same call from being
\* updated and checked: after a call in which a close failed every open
\* position whose symbol has a price carries that price and does not meet its
\* exit condition.
\* ------------------------------------------------------------------------
C30_FailedCloseDoesNotStopUpdatePrices ==
    [][(lastOp'.op = "updatePrices" /\ lastOp'.threw) =>
         \A k \in 1..Len(positions') :
            LET p == positions'[k]
                price == lastOp'.prices[p.symbol]
            IN  price # 0 => (p.currentPrice = price /\ ~ExitTriggered(p, price))]_vars

\* ------------------------------------------------------------------------
\* C22: at any time at most one invocation of the prediction (scan) cycle and
\* at most one invocation of the execution cycle is in flight, in either
\* engine: a tick that fires while an invocation of its cycle is still waiting
\* is skipped or deferred.
\* ------------------------------------------------------------------------
C22_OneInvocationPerCycle ==
    /\ Cardinality({i \in DOMAIN predRuns : predRuns[i].pc # "idle"}) <= 1
    /\ Cardinality({i \in DOMAIN execRuns : execRuns[i].pc # "idle"}) <= 1
    /\ Cardinality({i \in DOMAIN stockExecRuns : stockExecRuns[i].pc # "idle"}) <= 1

\* ------------------------------------------------------------------------
\* C23: validateSignal returns true exactly when all six checks pass, in the
\* order drawdown, open-position count, correlation, confidence, volatility,
\* Kelly: false if currentDrawdown > maxDrawdown, or open positions >=
\* maxOpenPositions, or correlation risk > 0.8, or confidence < 0.65, or
\* volatility > 0.5, or Kelly fraction < 0.01; the first failing check is the
\* one that decides (and is logged), and an exception gives false.
\* ------------------------------------------------------------------------
C23_CheckNames ==
    <<"Maximum drawdown exceeded", "Maximum open positions reached", "High correlation risk",
      "Low confidence signal", "High volatility", "Kelly fraction too low">>

C23_Failing(r, signal) ==
    {k \in 1..6 :
       \/ k = 1 /\ DrawdownExceeds(r)
       \/ k = 2 /\ getOpenPositionsCount >= r.maxOpenPositions
       \/ k = 3 /\ checkCorrelationRisk(signal.symbol) > 80
       \/ k = 4 /\ signal.confidence < 65
       \/ k = 5 /\ signal.volatility > 50
       \/ k = 6 /\ ~KellyIsNaN(signal) /\ KellyNum(signal) * 100 < KellyDen(signal)}

C23_SixChecksInOrder ==
    riskCall.op = "validateSignal" =>
        LET failing == C23_Failing(risk, riskCall.signal)
        IN  /\ riskCall.valid <=> (~riskCall.threw /\ failing = {})
            /\ (~riskCall.threw /\ failing # {}) =>
                   \E k \in failing :
                      /\ \A j \in failing : k <= j
                      /\ riskCall.warning = C23_CheckNames[k]

\* a signal that fails the volatility and the Kelly check only was rejected
\* for its volatility, and another call accepted a signal
C23_Witness ==
    /\ riskCall.op = "validateSignal"
    /\ ~riskCall.threw
    /\ C23_Failing(risk, riskCall.signal) = {5, 6}
    /\ ~riskCall.valid
    /\ riskCall.warning = "High volatility"

\* ------------------------------------------------------------------------
\* Properties of analyzeSignal (checked under SpecSignals)
\* ------------------------------------------------------------------------

\* C24: analyzeSignal produces no signal for a forecast whose direction is
\* 'neutral'; a BUY signal only for direction 'up', a SELL signal only for
\* direction 'down'.
C24_DirectionMapping ==
    (strategyCall.op = "analyzeSignal" /\ strategyCall.signal # NoSignal) =>
        /\ strategyCall.prediction.direction # "neutral"
        /\ strategyCall.signal.action = "BUY" => strategyCall.prediction.direction = "up"
        /\ strategyCall.signal.action = "SELL" => strategyCall.prediction.direction = "down"

\* the absolute predicted price change of the last analyzeSignal call, times
\* 100, to be compared with the current price (1% of it times 100)
C25_Change100 == Abs(strategyCall.prediction.predictedPrice - strategyCall.price) * 100

\* C25 as stated: analyzeSignal produces a signal only when the confidence
\* exceeds 0.65 and the absolute predicted change exceeds 1% of the current
\* price; a confidence equal to 0.65 or a change of exactly 1% gives no signal.
C25_StrictGates ==
    (strategyCall.op = "analyzeSignal" /\ strategyCall.signal # NoSignal) =>
        /\ strategyCall.prediction.confidence > 65
        /\ C25_Change100 > strategyCall.price

\* C25 amended: analyzeSignal produces a signal only when the confidence is
\* at least 0.65 and the absolute predicted change is at least 1% of the
\* current price; a forecast of direction up or down that meets both, a
\* confidence of exactly 0.65 and a change of exactly 1% included, produces one.
C25_InclusiveGates ==
    strategyCall.op = "analyzeSignal" =>
        LET passes == /\ strategyCall.prediction.confidence >= 65
                      /\ C25_Change100 >= strategyCall.price
        IN  /\ strategyCall.signal # NoSignal => passes
            /\ (passes /\ strategyCall.prediction.direction \in {"up", "down"}) =>
                   strategyCall.signal # NoSignal

\* a forecast with confidence 0.65 and a change of exactly 1% gave a signal
C25_Witness ==
    /\ strategyCall.op = "analyzeSignal"
    /\ strategyCall.prediction.direction = "up"
    /\ strategyCall.prediction.confidence = 65
    /\ C25_Change100 = strategyCall.price
    /\ strategyCall.signal # NoSignal

\* ------------------------------------------------------------------------
\* C26: a position is registered in the ledger only for an entry order that
\* has filled: an order the venue accepted but has not filled (status 'open',
\* filled 0) creates no position and changes no ledger balance.
\* ------------------------------------------------------------------------
C26_PositionOnlyForFilledOrder ==
    [][\A i \in DOMAIN execRuns :
         (execRuns[i].pc = "protect" /\ execRuns'[i].pc = "save"
            /\ execRuns[i].status # "closed") =>
              /\ execRuns[i].orderId \notin OpenIds(positions')
              /\ balance' = balance]_vars

\* ------------------------------------------------------------------------
\* C27: when the venue rejects or fails an entry order, no position is
\* registered for that signal, the signal is not put back on the queue, and no
\* second order attempt is made for it in this or a later cycle.
\* A signal is dropped when it has been created, is neither on the queue nor
\* held by an invocation, and has no entry order; a rejection leaves its signal
\* dropped and the ledger as it was, and a dropped signal stays dropped.
\* ------------------------------------------------------------------------
C27_Dropped(s) ==
    /\ s <= sigCount
    /\ \A k \in 1..Len(signalQueue) : signalQueue[k].id # s
    /\ \A i \in DOMAIN execRuns : execRuns[i].pc = "idle" \/ execRuns[i].signal.id # s
    /\ EntryOrders(s) = {}

C27_StockDropped(s) ==
    /\ s <= stockSigCount
    /\ \A k \in 1..Len(stockSignalQueue) : stockSignalQueue[k].id # s
    /\ \A i \in DOMAIN stockExecRuns :
          stockExecRuns[i].pc = "idle" \/ stockExecRuns[i].signal.id # s
    /\ scanRun.signal.id # s
    /\ \A k \in 1..Len(stockOrders) : stockOrders[k].ref # s

C27_RejectedEntryIsFinal ==
    [][\A s \in 1..MaxSignals :
         /\ \A i \in DOMAIN execRuns :
              (execRuns[i].pc = "entry" /\ execRuns[i].signal.id = s
                 /\ execRuns'[i] # execRuns[i] /\ orders' = orders) =>
                  /\ C27_Dropped(s)'
                  /\ positions' = positions
                  /\ balance' = balance
         /\ \A i \in DOMAIN stockExecRuns :
              (stockExecRuns[i].pc = "entry" /\ stockExecRuns[i].signal.id = s
                 /\ stockExecRuns'[i] # stockExecRuns[i] /\ stockOrders' = stockOrders) =>
                  /\ C27_StockDropped(s)'
                  /\ positions' = positions
         /\ C27_Dropped(s) => C27_Dropped(s)'
         /\ C27_StockDropped(s) => C27_StockDropped(s)']_vars

\* the engine's exchange is there and a signal that was shifted off the queue
\* in time has no entry order and is held by no invocation: the venue rejected
\* its entry order
C27_Witness ==
    /\ HasExchange(EngineExchange)
    /\ \E k \in 1..Len(removed) :
          /\ removed[k].id \notin RemovedStale(removed)
          /\ C27_Dropped(removed[k].id)

\* ------------------------------------------------------------------------
\* C28: an error raised while processing one instrument in the prediction or
\* scan cycle, one signal in the execution cycle, or one position in the
\* shutdown sweep is caught and does not keep the remaining instruments,
\* signals or positions of that cycle from being processed; stop() still
\* completes with the engine stopped.
\* Whatever the outcome for an item, an error included, the prediction cycle
\* goes on to the next pair and the scan to the next symbol; an execution
\* invocation whose order was rejected ends only with the queue empty; a sweep
\* whose close failed goes on to the next position of its list and returns
\* after the last; and stop() returns with the engine not running and both
\* tasks stopped unless start() was called during its sweep.
\* ------------------------------------------------------------------------
C28_ErrorsDoNotStopCycles ==
    [][/\ \A i \in DOMAIN predRuns :
            (predRuns[i].pc = "data" /\ predRuns'[i] # predRuns[i]) =>
                predRuns'[i] = IF predRuns[i].idx < NumPairs
                               THEN [pc |-> "data", idx |-> predRuns[i].idx + 1]
                               ELSE IdlePred
       /\ (scanRun.pc = "validate" /\ scanRun' # scanRun) =>
            IF scanRun.idx < NumPairs
            THEN scanRun'.pc = "analyze" /\ scanRun'.idx = scanRun.idx + 1
            ELSE scanRun'.pc = "discover"
       /\ \A i \in DOMAIN execRuns :
            (execRuns[i].pc = "entry" /\ execRuns'[i] # execRuns[i] /\ orders' = orders) =>
                (execRuns'[i].pc = "idle" => signalQueue' = <<>>)
       /\ \A i \in DOMAIN stockExecRuns :
            (stockExecRuns[i].pc \in {"quote", "entry"} /\ stockExecRuns'[i] # stockExecRuns[i]
               /\ stockOrders' = stockOrders) =>
                (stockExecRuns'[i].pc = "idle" => stockSignalQueue' = <<>>)
       /\ (stopRun.pc = "sweep" /\ orders' = orders
             /\ [stopRun' EXCEPT !.restarted = FALSE] # [stopRun EXCEPT !.restarted = FALSE]) =>
                /\ stopRun'.todo = Tail(stopRun.todo)
                /\ stopRun'.pc = IF stopRun'.todo = <<>> THEN "returned" ELSE "sweep"
                /\ stopRun'.orderFailed
       /\ (stopRun.pc # "returned" /\ stopRun'.pc = "returned" /\ ~stopRun'.restarted) =>
                /\ ~isRunning'
                /\ predictionTask' = "stopped"
                /\ executionTask' = "stopped"]_vars

\* the sweep of stop() goes on with the positions left on its list after a
\* close that failed
C28_Witness ==
    /\ stopRun.pc = "sweep"
    /\ stopRun.orderFailed
    /\ stopRun.todo # <<>>
    /\ ~isRunning

\* ------------------------------------------------------------------------
\* Properties of adjustRiskParameters (checked under SpecAdjust)
\* ------------------------------------------------------------------------

\* C31: starting from the defaults, after every adjustRiskParameters call
\* maxOpenPositions is within [3, 15] and riskPerTrade is at most 0.03; a call
\* with currentDrawdown > 0.5 * maxDrawdown halves riskPerTrade and sets
\* maxOpenPositions to max(3, floor(maxOpenPositions / 2)); otherwise a call
\* with winRate > 0.6 and profitFactor > 2 sets riskPerTrade to
\* min(0.03, 1.1 * riskPerTrade) and maxOpenPositions to
\* min(15, maxOpenPositions + 1); any other call changes nothing.
C31_AdjustKeepsBounds ==
    [][riskCall'.op = "adjustRiskParameters" =>
         LET m == riskCall'.metrics
             \* riskPerTrade before and after, as quotients a / b and c / d
             a == risk.riskPerTrade
             b == risk.riskPerTradeDen
             c == risk'.riskPerTrade
             d == risk'.riskPerTradeDen
         IN  /\ risk'.maxOpenPositions >= 3
             /\ risk'.maxOpenPositions <= 15
             /\ c <= 300 * d
             /\ IF m.currentDrawdown > 1000
                THEN /\ 2 * c * b = a * d
                     /\ risk'.maxOpenPositions =
                          (IF risk.maxOpenPositions \div 2 >= 3
                           THEN risk.maxOpenPositions \div 2 ELSE 3)
                ELSE IF m.winRate > 60 /\ m.profitFactor > 200
                THEN /\ IF 11 * a <= 300 * 10 * b THEN 10 * c * b = 11 * a * d
                                                 ELSE c = 300 * d
                     /\ risk'.maxOpenPositions =
                          (IF risk.maxOpenPositions + 1 <= 15
                           THEN risk.maxOpenPositions + 1 ELSE 15)
                ELSE risk' = risk]_vars

\* both caps are reached by an increasing call, and the floor by a reducing one
C31_Witness ==
    /\ riskCall.op = "adjustRiskParameters"
    /\ riskCall.metrics.winRate > 60 /\ riskCall.metrics.profitFactor > 200
    /\ riskCall.metrics.currentDrawdown <= 1000
    /\ risk.maxOpenPositions = 15
    /\ risk.riskPerTrade = 300 /\ risk.riskPerTradeDen = 1

\* ------------------------------------------------------------------------
\* Properties of the trade history at its limit (checked under SpecHistory)
\* ------------------------------------------------------------------------

\* a close recorded while the history is full drops the oldest trade
C32_EvictsOldest ==
    [][(/\ lastOp'.op = "closePosition"
        /\ performanceHistory' # performanceHistory
        /\ Len(performanceHistory) >= HistoryLimit)
       => /\ Len(performanceHistory') = Len(performanceHistory)
          /\ SubSeq(performanceHistory', 1, Len(performanceHistory) - 1)
               = Tail(performanceHistory)]_vars

\* C32: the in-memory history of closed trades never holds more than 1000
\* records, and when recording a close would exceed 1000 the record evicted
\* is the oldest one.
C32_HistoryAtMost1000 ==
    /\ [](Len(performanceHistory) <= HistoryLimit)
    /\ C32_EvictsOldest

\* ------------------------------------------------------------------------
\* Properties of the size calculatePositionSize returns (checked under SpecRisk)
\* ------------------------------------------------------------------------

C34_IsProfitFactor(q, trades) ==
    LET grossProfit == SumPnl(SelectSeq(trades, LAMBDA t : t.pnl > 0))
        grossLoss == Abs(SumPnl(SelectSeq(trades, LAMBDA t : t.pnl < 0)))
    IN  /\ q.den # 0
        /\ IF grossLoss > 0 THEN q.num * grossLoss = grossProfit * q.den
           ELSE q.num = grossProfit * q.den

\* the half of C34 about RiskManager.calculateProfitFactor
C34_RiskManagerProfitFactor ==
    C34_IsProfitFactor(calculateProfitFactor(performanceHistory), performanceHistory)

\* C34: profitFactor equals grossProfit / |grossLoss| when there are losing
\* trades, 0 when there are neither profits nor losses, and grossProfit when
\* there are profits but no losses, in PortfolioManager.getPerformanceMetrics
\* as well as in RiskManager.calculateProfitFactor.
C34_ProfitFactorThreeCases ==
    lastOp.op = "getPerformanceMetrics" =>
        /\ IF performanceHistory = <<>>
           THEN getPerformanceMetrics(performanceHistory).profitFactor = 0
           ELSE C34_IsProfitFactor(getPerformanceMetrics(performanceHistory).profitFactor,
                                   performanceHistory)
        /\ C34_RiskManagerProfitFactor

\* ------------------------------------------------------------------------
\* Properties of the engines' timers (checked under Spec)
\* ------------------------------------------------------------------------

\* the crypto half of C35: a stopped TradingEngine has no timer scheduled
C35_CryptoTimersStopped ==
    ~isRunning => predictionTask # "scheduled" /\ executionTask # "scheduled"

\* C35: after stop() no prediction (scan) timer and no execution timer is
\* scheduled until the next start(), in the TradingEngine and in the
\* StockTradingEngine: while an engine is stopped neither of its two timers
\* is scheduled.
C35_NoTimerWhileStopped ==
    /\ C35_CryptoTimersStopped
    /\ ~stockIsRunning => scanTask # "scheduled" /\ executeTask # "scheduled"

\* ------------------------------------------------------------------------
\* Properties of closing a position once (checked under SpecLedger)
\* ------------------------------------------------------------------------

\* no position id has two records in the trade history
C36_OneTradePerId ==
    \A i, j \in 1..Len(performanceHistory) :
        performanceHistory[i].positionId = performanceHistory[j].positionId => i = j

\* C36: for every position id at most one ClosedTrade is recorded and the
\* balances are adjusted for its close at most once, under any interleaving of
\* updatePrices and closePosition calls: a step that changes the balances by
\* closing records exactly one trade per position it removes, and closing an
\* id that is no longer open fails and changes no ledger state.
C36_ClosedAtMostOnce ==
    /\ []C36_OneTradePerId
    /\ [][/\ lastOp'.op \in {"closePosition", "updatePrices"} =>
              /\ Len(performanceHistory') - Len(performanceHistory)
                   = Len(positions) - Len(positions')
              /\ balance' # balance => Len(positions') < Len(positions)
           /\ \A id \in 1..MaxIds :
                (lastOp'.op = "closePosition" /\ lastOp'.id = id /\ id \notin OpenIds(positions))
                => /\ lastOp'.threw
                   /\ UNCHANGED <<positions, balance, performanceHistory>>]_vars

\* the last call closed again the id whose trade was recorded first
C36_Witness ==
    /\ Len(performanceHistory) = 2
    /\ lastOp.op = "closePosition"
    /\ lastOp.id = performanceHistory[1].positionId
    /\ lastOp.threw

\* ------------------------------------------------------------------------
\* Properties of the execution cycle after stop() (checked under Spec)
\* ------------------------------------------------------------------------

\* C37: after TradingEngine.stop() has begun, no new entry order is submitted
\* and no new position is registered, even when an execution cycle was in
\* flight when stop() was called: while isRunning is false no invocation of
\* executeSignals starts waiting for the entry order of another signal and no
\* id is added to the open positions.
C37_NoEntryAfterStop ==
    [][~isRunning =>
         /\ \A i \in DOMAIN execRuns :
              execRuns'[i].pc = "entry" =>
                  /\ execRuns[i].pc = "entry"
                  /\ execRuns'[i].signal = execRuns[i].signal
         /\ OpenIds(positions') \subseteq OpenIds(positions)]_vars

\* ------------------------------------------------------------------------
\* Properties of the ledger's balances under the engine (checked under Spec)
\* ------------------------------------------------------------------------

\* the USDT half of C38
C38_QuoteNonNegative == balance["USDT"] >= 0

\* C38: with positions opened by the execution cycle at the sizes
\* calculatePositionSize returns, the ledger's USDT balance never becomes
\* negative and every asset balance stays at or above 0.
C38_BalancesNonNegative ==
    \A a \in DOMAIN balance : balance[a] >= 0

\* ------------------------------------------------------------------------
\* Properties of the data feeds (checked under SpecFeeds)
\* ------------------------------------------------------------------------

\* the socket half of C39: a stopped symbol has no open socket
C39_NoSocketForStoppedSymbol ==
    \A s \in Symbols : feeds.stopped[s] => feeds.openSockets[s] = 0

\* the task half of C39: after stopAllFeeds no update task is running
C39_NoTaskAfterStopAll ==
    feeds.allStopped => \A s \in Symbols : feeds.tasks[s] = 0

\* C39: after stopFeed(symbol) or stopAllFeeds() has completed, no WebSocket
\* of a stopped symbol is open or re-created by the reconnect handler, and no
\* periodic update task of a started feed remains scheduled.
C39_StoppedFeedsStayStopped ==
    /\ C39_NoSocketForStoppedSymbol
    /\ C39_NoTaskAfterStopAll
    /\ \A s \in Symbols : feeds.stopped[s] => feeds.tasks[s] = 0
====
